---- MODULE Spec2Model ----
(***************************************************************************)
(* Model of the AST extraction engine (ASTExtractor, CompleteExtractor).    *)
(*                                                                         *)
(* A source text is represented by the syntax tree the parser returns for   *)
(* it: a sequence of node records in document (pre-order) order, node 1     *)
(* being the root.  A node carries its type tag, the index of its parent    *)
(* (0 for the root), the field name under which its parent holds it ("" if  *)
(* none), whether it is a named node, and its text.  Texts are sequences of *)
(* one-character strings so that trimming and joining are computed.         *)
(***************************************************************************)
EXTENDS Integers, Sequences, FiniteSets

VARIABLES code, config, log

vars == <<code, config, log>>

\* ---------------------------------------------------------------- bounds
\* nodes below the root of a source tree, leaf children of a node excluded
MaxNodes == 3

\* ---------------------------------------------------------------- values
\* JavaScript null: a value that no text of a source tree equals
Null == <<"null">>

\* JavaScript truthiness of a string-or-null value
Truthy(v) == v /= Null /\ v /= <<>>

\* node absent (childForFieldName / parent / sibling returned null)
NoNode == 0

Str(s) == <<s>>

Max(a, b) == IF a >= b THEN a ELSE b

\* ------------------------------------------------------- language config
JavaConfig ==
    [classTypes |-> {"class_declaration"}, classNameField |-> "name",
     methodTypes |-> {"method_declaration", "constructor_declaration"},
     methodNameField |-> "name",
     fieldTypes |-> {"field_declaration"}, fieldNameField |-> "declarator"]

PythonConfig ==
    [classTypes |-> {"class_definition"}, classNameField |-> "name",
     methodTypes |-> {"function_definition"}, methodNameField |-> "name",
     fieldTypes |-> {"assignment", "expression_statement"},
     fieldNameField |-> "left"]

CSharpConfig ==
    [classTypes |-> {"class_declaration"}, classNameField |-> "name",
     methodTypes |-> {"method_declaration", "constructor_declaration"},
     methodNameField |-> "name",
     fieldTypes |-> {"field_declaration", "property_declaration"},
     fieldNameField |-> "name"]

JavaScriptConfig ==
    [classTypes |-> {"class_declaration"}, classNameField |-> "name",
     methodTypes |-> {"method_definition", "function_declaration",
                      "arrow_function"},
     methodNameField |-> "name",
     fieldTypes |-> {"public_field_definition", "lexical_declaration",
                     "variable_declaration"},
     fieldNameField |-> "name"]

TypeScriptConfig ==
    [classTypes |-> {"class_declaration"}, classNameField |-> "name",
     methodTypes |-> {"method_definition", "function_declaration",
                      "arrow_function"},
     methodNameField |-> "name",
     fieldTypes |-> {"public_field_definition", "property_signature",
                     "lexical_declaration"},
     fieldNameField |-> "name"]

LanguageConfigMap ==
    [java |-> JavaConfig, python |-> PythonConfig, csharp |-> CSharpConfig,
     javascript |-> JavaScriptConfig, typescript |-> TypeScriptConfig]

\* the keys of LanguageConfigMap, character by character
KeySpelling ==
    [java |-> <<"j", "a", "v", "a">>,
     python |-> <<"p", "y", "t", "h", "o", "n">>,
     csharp |-> <<"c", "s", "h", "a", "r", "p">>,
     javascript |-> <<"j", "a", "v", "a", "s", "c", "r", "i", "p", "t">>,
     typescript |-> <<"t", "y", "p", "e", "s", "c", "r", "i", "p", "t">>]

UpperCase ==
    <<"A", "B", "C", "D", "E", "F", "G", "H", "I", "J", "K", "L", "M",
      "N", "O", "P", "Q", "R", "S", "T", "U", "V", "W", "X", "Y", "Z">>

LowerCase ==
    <<"a", "b", "c", "d", "e", "f", "g", "h", "i", "j", "k", "l", "m",
      "n", "o", "p", "q", "r", "s", "t", "u", "v", "w", "x", "y", "z">>

\* String.prototype.toLowerCase
ToLowerCase(s) ==
    [i \in 1..Len(s) |->
        IF \E j \in 1..Len(UpperCase) : UpperCase[j] = s[i]
        THEN LowerCase[CHOOSE j \in 1..Len(UpperCase) : UpperCase[j] = s[i]]
        ELSE s[i]]

\* a function result: a thrown error or a returned value
Thrown(e) == [threw |-> TRUE, error |-> e]

Returned(v) == [threw |-> FALSE, value |-> v]

\* the lower-case property names an object literal inherits from
\* Object.prototype, and what such a property holds: no language config
InheritedKeys == {<<"c", "o", "n", "s", "t", "r", "u", "c", "t", "o", "r">>, <<"_", "_", "p", "r", "o", "t", "o", "_", "_">>}

InheritedValue == [inherited |-> "Object.prototype"]

\* LanguageConfigMap[key]: <<v>> for an own entry or an inherited property
\* v, <<>> for undefined
Lookup(key) ==
    IF \E k \in DOMAIN LanguageConfigMap : KeySpelling[k] = key
    THEN <<LanguageConfigMap[CHOOSE k \in DOMAIN LanguageConfigMap :
                                KeySpelling[k] = key]>>
    ELSE IF key \in InheritedKeys THEN <<InheritedValue>>
    ELSE <<>>

\* getLanguageConfig(languageName): every object is truthy
GetLanguageConfig(languageName) ==
    LET found == Lookup(ToLowerCase(languageName))
    IN  IF found = <<>> THEN Thrown("unsupported language")
        ELSE Returned(found[1])

\* ------------------------------------------------------ syntax-tree access
Nodes(t) == 1..Len(t)

\* node.parent
Parent(t, n) == t[n].parent

\* node.child(0..childCount-1), left to right
RECURSIVE ChildrenFrom(_, _, _)
ChildrenFrom(t, n, i) ==
    IF i > Len(t) THEN <<>>
    ELSE IF t[i].parent = n THEN <<i>> \o ChildrenFrom(t, n, i + 1)
    ELSE ChildrenFrom(t, n, i + 1)

Children(t, n) == ChildrenFrom(t, n, n + 1)

\* node.childForFieldName(f): the first child held under field f
ChildForFieldName(t, n, f) ==
    LET cs == SelectSeq(Children(t, n), LAMBDA c : t[c].field = f)
    IN  IF cs = <<>> THEN NoNode ELSE cs[1]

\* node.previousSibling
PreviousSibling(t, n) ==
    LET S == {m \in Nodes(t) : m < n /\ t[m].parent = t[n].parent}
    IN  IF n = 1 \/ S = {} THEN NoNode
        ELSE CHOOSE m \in S : \A k \in S : k <= m

\* node.previousNamedSibling
PreviousNamedSibling(t, n) ==
    LET S == {m \in Nodes(t) :
                 m < n /\ t[m].parent = t[n].parent /\ t[m].named}
    IN  IF n = 1 \/ S = {} THEN NoNode
        ELSE CHOOSE m \in S : \A k \in S : k <= m

\* the proper ancestors of n
RECURSIVE Ancestors(_, _)
Ancestors(t, n) ==
    IF t[n].parent = NoNode THEN {}
    ELSE {t[n].parent} \cup Ancestors(t, t[n].parent)

\* the nodes of the subtree rooted at n, n included
Subtree(t, n) == {m \in Nodes(t) : m = n \/ n \in Ancestors(t, m)}

\* ------------------------------------------------------- string functions
Whitespace == {" ", "\n", "\t"}

\* String.prototype.trim
RECURSIVE TrimStart(_)
TrimStart(s) ==
    IF s /= <<>> /\ Head(s) \in Whitespace THEN TrimStart(Tail(s)) ELSE s

RECURSIVE TrimEnd(_)
TrimEnd(s) ==
    IF s /= <<>> /\ s[Len(s)] \in Whitespace
    THEN TrimEnd(SubSeq(s, 1, Len(s) - 1)) ELSE s

Trim(s) == TrimEnd(TrimStart(s))

\* Array.prototype.join with a separator
RECURSIVE Join(_, _)
Join(ss, sep) ==
    IF ss = <<>> THEN <<>>
    ELSE IF Len(ss) = 1 THEN ss[1]
    ELSE ss[1] \o sep \o Join(Tail(ss), sep)

\* ----------------------------------------------------------- ASTExtractor
\* a search that pushes a node after the matches of its children
RECURSIVE FindFromPostOrder(_, _, _, _)
FindFromPostOrder(t, kids, types, k) ==
    IF k > Len(kids) THEN <<>>
    ELSE FindFromPostOrder(t, Children(t, kids[k]), types, 1)
         \o (IF t[kids[k]].type \in types THEN <<kids[k]>> ELSE <<>>)
         \o FindFromPostOrder(t, kids, types, k + 1)

\* findNodesByType(node, targetTypes): the default `results = []` is a fresh
\* array per call; the node itself first, then each child's matches in order
RECURSIVE FindFrom(_, _, _, _)
FindFrom(t, kids, types, k) ==
    IF k > Len(kids) THEN <<>>
    ELSE (IF t[kids[k]].type \in types THEN <<kids[k]>> ELSE <<>>)
         \o FindFrom(t, Children(t, kids[k]), types, 1)
         \o FindFrom(t, kids, types, k + 1)

\* a results array that survives from one call to the next
LeftoverResults == IF log = <<>> THEN <<>> ELSE <<1>>

\* the default parameter `results = []`: a new, empty array on every call
FreshResults == <<>>

FindNodesByType(t, n, types) == FreshResults \o FindFrom(t, <<n>>, types, 1)

\* a name lookup that hands back null for a node without name child
GetNodeNameOrNull(t, n, fieldName) ==
    LET nameNode == ChildForFieldName(t, n,
                        IF fieldName = "" THEN "name" ELSE fieldName)
    IN  IF nameNode /= NoNode THEN t[nameNode].text ELSE Null

\* _getNodeName(node, fieldName)
GetNodeName(t, n, fieldName) ==
    LET nameNode == ChildForFieldName(t, n,
                        IF fieldName = "" THEN "name" ELSE fieldName)
    IN  IF nameNode /= NoNode THEN t[nameNode].text ELSE Str("anonymous")

\* _getModifiers(node)
GetModifiers(t, n) ==
    LET modifiers == FindNodesByType(t, n, {"modifier"})
    IN  [i \in 1..Len(modifiers) |-> t[modifiers[i]].text]

\* a walk that keeps the name of the outermost class
RECURSIVE OutermostClassWalk(_, _, _)
OutermostClassWalk(t, cfg, parent) ==
    IF parent = NoNode THEN Null
    ELSE LET outer == OutermostClassWalk(t, cfg, Parent(t, parent))
             nameNode == ChildForFieldName(t, parent, cfg.classNameField)
         IN  IF t[parent].type \in cfg.classTypes /\ outer = Null
             THEN IF nameNode /= NoNode THEN t[nameNode].text ELSE Null
             ELSE outer

\* _getParentClassName(node): walk the parent chain to the first class node
RECURSIVE ParentClassWalk(_, _, _)
ParentClassWalk(t, cfg, parent) ==
    IF parent = NoNode THEN Null
    ELSE IF t[parent].type \in cfg.classTypes
         THEN LET nameNode == ChildForFieldName(t, parent,
                                IF cfg.classNameField = "" THEN "name"
                                ELSE cfg.classNameField)
              IN  IF nameNode /= NoNode THEN t[nameNode].text ELSE Null
         ELSE ParentClassWalk(t, cfg, Parent(t, parent))

GetParentClassName(t, cfg, n) == ParentClassWalk(t, cfg, Parent(t, n))

\* _getReturnType(methodNode)
GetReturnType(t, n) ==
    LET ty == ChildForFieldName(t, n, "type")
        rt == ChildForFieldName(t, n, "return_type")
        typeNode == IF ty /= NoNode THEN ty ELSE rt
    IN  IF typeNode /= NoNode THEN t[typeNode].text ELSE Str("void")

\* _getParametersText(methodNode)
GetParametersText(t, n) ==
    LET params == ChildForFieldName(t, n, "parameters")
    IN  IF params /= NoNode THEN t[params].text ELSE <<"(", ")">>

\* the characters of the node types that parameter lists hold; the type of
\* any other node is one symbol that holds no word
TypeSpelling ==
    [formal_parameter |-> <<"f", "o", "r", "m", "a", "l", "_", "p", "a", "r", "a", "m", "e", "t", "e", "r">>,
     parameter |-> <<"p", "a", "r", "a", "m", "e", "t", "e", "r">>,
     identifier |-> <<"i", "d", "e", "n", "t", "i", "f", "i", "e", "r">>,
     typed_parameter |-> <<"t", "y", "p", "e", "d", "_", "p", "a", "r", "a", "m", "e", "t", "e", "r">>,
     typed_default_parameter |-> <<"t", "y", "p", "e", "d", "_", "d", "e", "f", "a", "u", "l", "t", "_", "p", "a", "r", "a", "m", "e", "t", "e", "r">>,
     default_parameter |-> <<"d", "e", "f", "a", "u", "l", "t", "_", "p", "a", "r", "a", "m", "e", "t", "e", "r">>,
     required_parameter |-> <<"r", "e", "q", "u", "i", "r", "e", "d", "_", "p", "a", "r", "a", "m", "e", "t", "e", "r">>,
     optional_parameter |-> <<"o", "p", "t", "i", "o", "n", "a", "l", "_", "p", "a", "r", "a", "m", "e", "t", "e", "r">>,
     spread_parameter |-> <<"s", "p", "r", "e", "a", "d", "_", "p", "a", "r", "a", "m", "e", "t", "e", "r">>,
     list_splat_pattern |-> <<"l", "i", "s", "t", "_", "s", "p", "l", "a", "t", "_", "p", "a", "t", "t", "e", "r", "n">>]

Spelled(type) ==
    IF type \in DOMAIN TypeSpelling THEN TypeSpelling[type] ELSE <<type>>

\* Array.prototype.includes
Includes(comments, text) == \E i \in 1..Len(comments) : comments[i] = text

\* String.prototype.includes
StringIncludes(s, w) ==
    \E i \in 1..(Len(s) - Len(w) + 1) : SubSeq(s, i, i + Len(w) - 1) = w

ParamTypes ==
    {"formal_parameter", "parameter", "identifier", "typed_parameter",
     "typed_default_parameter", "default_parameter", "required_parameter",
     "optional_parameter"}

\* a || b on nodes
OrElse(a, b) == IF a /= NoNode THEN a ELSE b

\* _extractParameterInfo(paramNode): <<>> stands for the null it returns for
\* a node that is no parameter, <<record>> for the record
ExtractParameterInfo(t, n) ==
    IF /\ t[n].type \notin ParamTypes
       /\ t[n].type /= "identifier"
       /\ ~StringIncludes(Spelled(t[n].type), Spelled("parameter"))
    THEN <<>>
    ELSE LET nameNode == OrElse(ChildForFieldName(t, n, "name"),
                                ChildForFieldName(t, n, "pattern"))
             typeNode == ChildForFieldName(t, n, "type")
             valueNode == OrElse(ChildForFieldName(t, n, "value"),
                                 ChildForFieldName(t, n, "default_value"))
             defaultValue == IF valueNode /= NoNode THEN t[valueNode].text
                             ELSE Null
         IN  <<[name |-> IF nameNode /= NoNode THEN t[nameNode].text
                         ELSE IF t[n].type = "identifier" THEN t[n].text
                         ELSE Str("unknown"),
                type |-> IF typeNode /= NoNode THEN t[typeNode].text ELSE Null,
                defaultValue |-> defaultValue,
                hasDefault |-> defaultValue /= Null,
                text |-> t[n].text]>>

\* a loop that puts each record in front of the ones collected before
RECURSIVE ParametersUnshifted(_, _, _)
ParametersUnshifted(t, kids, i) ==
    IF i > Len(kids) THEN <<>>
    ELSE ParametersUnshifted(t, kids, i + 1)
         \o (IF t[kids[i]].type \in {",", "(", ")"} THEN <<>>
             ELSE ExtractParameterInfo(t, kids[i]))

\* the loop of _getParametersDetailed over the children of the parameters
\* node: punctuation is skipped, each record is pushed
RECURSIVE ParametersFrom(_, _, _)
ParametersFrom(t, kids, i) ==
    IF i > Len(kids) THEN <<>>
    ELSE (IF t[kids[i]].type \in {",", "(", ")"} THEN <<>>
          ELSE ExtractParameterInfo(t, kids[i]))
         \o ParametersFrom(t, kids, i + 1)

\* _getParametersDetailed(methodNode)
GetParametersDetailed(t, n) ==
    LET paramsNode == ChildForFieldName(t, n, "parameters")
    IN  IF paramsNode = NoNode THEN <<>>
        ELSE ParametersFrom(t, Children(t, paramsNode), 1)

\* methodNode.parent?.parent
Grandparent(t, n) ==
    IF Parent(t, n) = NoNode THEN NoNode ELSE Parent(t, Parent(t, n))

\* the entry _getDecorators pushes for a decorator node
DecoratorEntry(t, d) ==
    [name |-> IF ChildForFieldName(t, d, "name") /= NoNode
              THEN t[ChildForFieldName(t, d, "name")].text ELSE t[d].text,
     text |-> t[d].text]

\* the annotation loop of _getDecorators: every previous named sibling is
\* visited, an annotation is pushed when it is met
RECURSIVE AnnotationsBack(_, _)
AnnotationsBack(t, sibling) ==
    IF sibling = NoNode THEN <<>>
    ELSE (IF t[sibling].type \in {"marker_annotation", "annotation"}
          THEN <<[name |-> t[sibling].text, text |-> t[sibling].text]>>
          ELSE <<>>)
         \o AnnotationsBack(t, PreviousNamedSibling(t, sibling))

\* the decorators of the wrapper two levels above the node
WrapperDecorators(t, parent) ==
    IF parent /= NoNode /\ t[parent].type = "decorated_definition"
    THEN FindNodesByType(t, parent, {"decorator"})
    ELSE <<>>

\* _getDecorators(methodNode)
GetDecorators(t, n) ==
    [i \in 1..Len(WrapperDecorators(t, Grandparent(t, n))) |->
        DecoratorEntry(t, WrapperDecorators(t, Grandparent(t, n))[i])]
    \o AnnotationsBack(t, PreviousNamedSibling(t, n))

\* _isStaticMethod(methodNode, modifiers)
IsStaticMethod(t, n, modifiers) ==
    IF Includes(modifiers, <<"s", "t", "a", "t", "i", "c">>) THEN TRUE
    ELSE \E i \in 1..Len(WrapperDecorators(t, Grandparent(t, n))) :
            StringIncludes(t[WrapperDecorators(t, Grandparent(t, n))[i]].text,
                           <<"s", "t", "a", "t", "i", "c",
                             "m", "e", "t", "h", "o", "d">>)

\* the record extractMethods builds for the index-th (0-based) method node;
\* location is the node's position in the source
MethodRecord(t, cfg, n, index) ==
    [index |-> index + 1,
     name |-> GetNodeName(t, n, cfg.methodNameField),
     type |-> t[n].type,
     modifiers |-> GetModifiers(t, n),
     isStatic |-> IsStaticMethod(t, n, GetModifiers(t, n)),
     returnType |-> GetReturnType(t, n),
     parameters |-> GetParametersText(t, n),
     parametersDetailed |-> GetParametersDetailed(t, n),
     parentClass |-> GetParentClassName(t, cfg, n),
     decorators |-> GetDecorators(t, n),
     location |-> n]

\* extractMethods(code, includeClassMethods)
ExtractMethods(t, cfg, includeClassMethods) ==
    LET methodNodes == FindNodesByType(t, 1, cfg.methodTypes)
        mapped == [i \in 1..Len(methodNodes) |->
                      MethodRecord(t, cfg, methodNodes[i], i - 1)]
    IN  SelectSeq(mapped,
            LAMBDA m : ~(~includeClassMethods /\ Truthy(m.parentClass)))

\* extractClasses(code)
ExtractClasses(t, cfg) ==
    LET classNodes == FindNodesByType(t, 1, cfg.classTypes)
    IN  [i \in 1..Len(classNodes) |->
          LET classNode == classNodes[i]
              body == ChildForFieldName(t, classNode, "body")
          IN  [index |-> i,
               name |-> GetNodeName(t, classNode, cfg.classNameField),
               type |-> t[classNode].type,
               modifiers |-> GetModifiers(t, classNode),
               methodCount |->
                   IF body /= NoNode
                   THEN Len(FindNodesByType(t, body, cfg.methodTypes)) ELSE 0,
               fieldCount |->
                   IF body /= NoNode
                   THEN Len(FindNodesByType(t, body, cfg.fieldTypes)) ELSE 0,
               location |-> classNode]]

\* _getFieldType(fieldNode)
GetFieldType(t, n) ==
    LET typeNode == ChildForFieldName(t, n, "type")
    IN  IF typeNode /= NoNode THEN t[typeNode].text ELSE Str("unknown")

\* ASTExtractor._extractFieldInfo(fieldNode, index)
ExtractFieldInfo(t, cfg, n, index) ==
    [index |-> index + 1,
     name |-> GetNodeName(t, n, cfg.fieldNameField),
     type |-> GetFieldType(t, n),
     nodeType |-> t[n].type,
     parentClass |-> GetParentClassName(t, cfg, n),
     modifiers |-> GetModifiers(t, n),
     location |-> n]

\* extractFields(code)
ExtractFields(t, cfg) ==
    LET fieldNodes == FindNodesByType(t, 1, cfg.fieldTypes)
    IN  [i \in 1..Len(fieldNodes) |->
            ExtractFieldInfo(t, cfg, fieldNodes[i], i - 1)]

\* extractAll(code)
ExtractAll(t, cfg) ==
    [classes |-> ExtractClasses(t, cfg),
     methods |-> ExtractMethods(t, cfg, TRUE),
     fields |-> ExtractFields(t, cfg)]

\* ------------------------------------------------------------ JavaExtractor
\* JavaExtractor._extractFieldInfo(fieldNode, index): <<>> stands for the
\* null it returns for a field node without declarator
JavaExtractFieldInfo(t, cfg, n, index) ==
    LET typeNode == ChildForFieldName(t, n, "type")
        declarator == ChildForFieldName(t, n, "declarator")
        nameNode == ChildForFieldName(t, declarator, "name")
    IN  IF declarator = NoNode THEN <<>>
        ELSE <<[index |-> index + 1,
                name |-> IF nameNode /= NoNode THEN t[nameNode].text
                         ELSE Str("unknown"),
                type |-> IF typeNode /= NoNode THEN t[typeNode].text
                         ELSE Str("unknown"),
                nodeType |-> t[n].type,
                parentClass |-> GetParentClassName(t, cfg, n),
                modifiers |-> GetModifiers(t, n),
                location |-> n]>>

\* extractFields(code) of a JavaExtractor: a null is not pushed
RECURSIVE JavaFieldsFrom(_, _, _, _)
JavaFieldsFrom(t, cfg, fieldNodes, i) ==
    IF i > Len(fieldNodes) THEN <<>>
    ELSE JavaExtractFieldInfo(t, cfg, fieldNodes[i], i - 1)
         \o JavaFieldsFrom(t, cfg, fieldNodes, i + 1)

JavaExtractFields(t, cfg) ==
    JavaFieldsFrom(t, cfg, FindNodesByType(t, 1, cfg.fieldTypes), 1)

\* ---------------------------------------------------------- PythonExtractor
\* node.child(i), i counted from 0: NoNode stands for the null of a missing
\* child
Child(t, n, i) ==
    IF i < Len(Children(t, n)) THEN Children(t, n)[i + 1] ELSE NoNode

\* the assignment node that _extractFieldInfo reads the names from: the field
\* node itself, or the first child of an expression statement
AssignmentOf(t, n) ==
    IF t[n].type = "assignment" THEN n
    ELSE IF t[n].type = "expression_statement"
            /\ Child(t, n, 0) /= NoNode
            /\ t[Child(t, n, 0)].type = "assignment"
    THEN Child(t, n, 0)
    ELSE NoNode

\* PythonExtractor._extractFieldInfo(fieldNode, index): <<>> stands for the
\* null it returns
PythonExtractFieldInfo(t, cfg, n, index) ==
    LET parentClass == GetParentClassName(t, cfg, n)
        assignment == AssignmentOf(t, n)
        left == Child(t, assignment, 0)
        right == Child(t, assignment, 2)
        fieldName == IF assignment /= NoNode /\ left /= NoNode
                     THEN t[left].text ELSE Str("unknown")
        fieldType == IF assignment /= NoNode /\ right /= NoNode
                     THEN t[right].type ELSE "unknown"
    IN  IF ~Truthy(parentClass) THEN <<>>
        ELSE IF fieldName = Str("unknown")
                \/ ~StringIncludes(fieldName, <<"s", "e", "l", "f", ".">>)
        THEN <<>>
        ELSE <<[index |-> index + 1,
                name |-> fieldName,
                type |-> fieldType,
                nodeType |-> t[n].type,
                parentClass |-> parentClass,
                modifiers |-> <<>>,
                location |-> n]>>

\* extractFields(code) of a PythonExtractor: a null is not pushed
RECURSIVE PythonFieldsFrom(_, _, _, _)
PythonFieldsFrom(t, cfg, fieldNodes, i) ==
    IF i > Len(fieldNodes) THEN <<>>
    ELSE PythonExtractFieldInfo(t, cfg, fieldNodes[i], i - 1)
         \o PythonFieldsFrom(t, cfg, fieldNodes, i + 1)

PythonExtractFields(t, cfg) ==
    PythonFieldsFrom(t, cfg, FindNodesByType(t, 1, cfg.fieldTypes), 1)

\* PythonExtractor._isStaticMethod(methodNode, modifiers): the modifiers are
\* not read
PythonIsStaticMethod(t, n, modifiers) ==
    \E i \in 1..Len(WrapperDecorators(t, Grandparent(t, n))) :
        StringIncludes(
            DecoratorEntry(t, WrapperDecorators(t, Grandparent(t, n))[i]).name,
            <<"s", "t", "a", "t", "i", "c", "m", "e", "t", "h", "o", "d">>)

\* extractMethods of a PythonExtractor: the records of the base class with
\* the static test of the variant
PythonMethodRecord(t, method) ==
    [method EXCEPT
        !.isStatic = PythonIsStaticMethod(t, method.location,
                                          method.modifiers)]

PythonExtractMethods(t, cfg, includeClassMethods) ==
    [i \in 1..Len(ExtractMethods(t, cfg, includeClassMethods)) |->
        PythonMethodRecord(t, ExtractMethods(t, cfg, includeClassMethods)[i])]

\* ---------------------------------------------------------- CSharpExtractor
\* the records CSharpExtractor._extractFieldInfo(fieldNode, index) collects in
\* `fields`; it returns fields[0] for one record and the array otherwise, and
\* extractFields pushes the one record or spreads the array
CSharpExtractFieldInfo(t, cfg, n, index) ==
    IF t[n].type = "field_declaration"
    THEN LET typeNode == ChildForFieldName(t, n, "type")
             declaration == ChildForFieldName(t, n, "declaration")
             modifiers == GetModifiers(t, n)
             parentClass == GetParentClassName(t, cfg, n)
             variables == IF declaration /= NoNode
                          THEN FindNodesByType(t, declaration,
                                               {"variable_declarator"})
                          ELSE <<>>
         IN  [vIndex \in 1..Len(variables) |->
                LET nameNode == ChildForFieldName(t, variables[vIndex], "name")
                IN  [index |-> index + (vIndex - 1) + 1,
                     name |-> IF nameNode /= NoNode THEN t[nameNode].text
                              ELSE Str("unknown"),
                     type |-> IF typeNode /= NoNode THEN t[typeNode].text
                              ELSE Str("unknown"),
                     nodeType |-> t[n].type,
                     parentClass |-> parentClass,
                     modifiers |-> modifiers,
                     location |-> n]]
    ELSE IF t[n].type = "property_declaration"
    THEN LET nameNode == ChildForFieldName(t, n, "name")
             typeNode == ChildForFieldName(t, n, "type")
         IN  <<[index |-> index + 1,
                name |-> IF nameNode /= NoNode THEN t[nameNode].text
                         ELSE Str("unknown"),
                type |-> IF typeNode /= NoNode THEN t[typeNode].text
                         ELSE Str("unknown"),
                nodeType |-> t[n].type,
                parentClass |-> GetParentClassName(t, cfg, n),
                modifiers |-> GetModifiers(t, n),
                location |-> n]>>
    ELSE <<>>

\* extractFields(code) of a CSharpExtractor
RECURSIVE CSharpFieldsFrom(_, _, _, _)
CSharpFieldsFrom(t, cfg, fieldNodes, i) ==
    IF i > Len(fieldNodes) THEN <<>>
    ELSE CSharpExtractFieldInfo(t, cfg, fieldNodes[i], i - 1)
         \o CSharpFieldsFrom(t, cfg, fieldNodes, i + 1)

CSharpExtractFields(t, cfg) ==
    CSharpFieldsFrom(t, cfg, FindNodesByType(t, 1, cfg.fieldTypes), 1)

\* --------------------------------------------------------- ExtractorFactory
\* ExtractorFactory.createExtractor(languageName, languageParser): the class
\* of the extractor constructed and the config it is bound to
CreateExtractor(languageName) ==
    LET got == GetLanguageConfig(languageName)
        normalizedName == ToLowerCase(languageName)
        class == IF normalizedName = KeySpelling["java"] THEN "JavaExtractor"
                 ELSE IF normalizedName = KeySpelling["python"]
                 THEN "PythonExtractor"
                 ELSE IF normalizedName = KeySpelling["csharp"]
                 THEN "CSharpExtractor"
                 ELSE IF normalizedName = KeySpelling["javascript"]
                         \/ normalizedName = <<"j", "s">>
                 THEN "JavaScriptExtractor"
                 ELSE "ASTExtractor"
    IN  IF got.threw THEN got
        ELSE Returned([class |-> class, config |-> got.value])

\* extractFields(code) of the extractor that createExtractor made
ExtractFieldsOfVariant(made, t) ==
    IF made.threw THEN <<>>
    ELSE IF made.value.class = "JavaExtractor"
    THEN JavaExtractFields(t, made.value.config)
    ELSE IF made.value.class = "PythonExtractor"
    THEN PythonExtractFields(t, made.value.config)
    ELSE IF made.value.class = "CSharpExtractor"
    THEN CSharpExtractFields(t, made.value.config)
    ELSE ExtractFields(t, made.value.config)

\* ExtractorFactory.getSupportedLanguages()
FactorySupportedLanguages ==
    {KeySpelling["java"], KeySpelling["python"], KeySpelling["csharp"],
     KeySpelling["javascript"]}

\* getSupportedLanguages(): Object.keys(LanguageConfigMap)
SupportedLanguages == {KeySpelling[k] : k \in DOMAIN LanguageConfigMap}

\* -------------------------------------------------------- CompleteExtractor
CommentTypes == {"comment", "line_comment", "block_comment"}

\* the backward sibling walk of _extractDocumentation (steps 1 and 3):
\* comments are unshifted, ERROR and blank siblings skipped, anything else stops
RECURSIVE CollectBack(_, _, _)
CollectBack(t, sibling, comments) ==
    IF sibling = NoNode THEN comments
    ELSE IF t[sibling].type \in CommentTypes
         THEN CollectBack(t, PreviousSibling(t, sibling),
                          <<t[sibling].text>> \o comments)
    ELSE IF t[sibling].type /= "ERROR" /\ Trim(t[sibling].text) /= <<>>
         THEN comments
    ELSE CollectBack(t, PreviousSibling(t, sibling), comments)

\* step 2: the previousNamedSibling chain while it holds comments
RECURSIVE NamedBack(_, _, _)
NamedBack(t, prevNamed, comments) ==
    IF prevNamed /= NoNode /\ t[prevNamed].type \in CommentTypes
    THEN NamedBack(t, PreviousNamedSibling(t, prevNamed),
                   IF ~Includes(comments, t[prevNamed].text)
                   THEN <<t[prevNamed].text>> \o comments ELSE comments)
    ELSE comments

\* step 3: the comments before the parent, only when nothing was collected
ParentComments(t, n, comments) ==
    IF Len(comments) = 0 /\ Parent(t, n) /= NoNode
    THEN CollectBack(t, PreviousSibling(t, Parent(t, n)), comments)
    ELSE comments

\* step 4: the loop over the children of the body
RECURSIVE BodyDocstring(_, _, _)
BodyDocstring(t, kids, i) ==
    IF i > Len(kids) THEN <<>>
    ELSE LET child == kids[i]
             sub == Children(t, child)
         IN  IF t[child].type = "expression_statement"
             THEN IF sub /= <<>> /\ t[sub[1]].type = "string"
                  THEN <<t[sub[1]].text>>
                  ELSE BodyDocstring(t, kids, i + 1)
             ELSE IF t[child].type /= "ERROR" /\ Trim(t[child].text) /= <<>>
                  THEN <<>>
                  ELSE BodyDocstring(t, kids, i + 1)

BodyComments(t, n, comments) ==
    IF t[n].type = "function_definition" \/ t[n].type = "class_definition"
    THEN LET body == ChildForFieldName(t, n, "body")
         IN  IF body /= NoNode
             THEN comments \o BodyDocstring(t, Children(t, body), 1)
             ELSE comments
    ELSE comments

\* a merge that joins before it looks at the number of comments
MergeCommentsJoinFirst(comments) ==
    [docstring |-> Trim(Join(comments, Str("\n"))),
     has_doc |-> Len(comments) > 0]

\* step 5: join and trim
MergeComments(comments) ==
    IF Len(comments) > 0
    THEN [docstring |-> Trim(Join(comments, Str("\n"))), has_doc |-> TRUE]
    ELSE [docstring |-> Null, has_doc |-> FALSE]

\* _extractDocumentation(node)
ExtractDocumentation(t, n) ==
    LET c1 == CollectBack(t, PreviousSibling(t, n), <<>>)
        c2 == NamedBack(t, PreviousNamedSibling(t, n), c1)
        c3 == ParentComments(t, n, c2)
        c4 == BodyComments(t, n, c3)
    IN  MergeComments(c4)

NestingTypes ==
    {"if_statement", "for_statement", "while_statement", "switch_statement",
     "try_statement"}

\* _calculateNestingDepth(node, currentDepth)
RECURSIVE NestingFrom(_, _, _, _)
NestingFrom(t, kids, i, currentDepth) ==
    IF i > Len(kids) THEN currentDepth
    ELSE LET child == kids[i]
             d == IF t[child].type \in NestingTypes
                  THEN currentDepth + 1 ELSE currentDepth
         IN  Max(NestingFrom(t, Children(t, child), 1, d),
                 NestingFrom(t, kids, i + 1, currentDepth))

\* a depth that counts every nesting node below the node
NestingNodeCount(t, n) ==
    Cardinality({m \in Subtree(t, n) \ {n} : t[m].type \in NestingTypes})

CalculateNestingDepth(t, n) == NestingFrom(t, Children(t, n), 1, 0)

StatementTypes ==
    {"expression_statement", "return_statement", "if_statement",
     "for_statement", "while_statement"}

BranchTypes == {"if_statement", "switch_statement", "case_clause"}

LoopTypes == {"for_statement", "while_statement", "do_statement"}

ReturnTypes == {"return_statement", "yield"}

\* a complexity that forgets the loops
ComplexityWithoutLoops(branches, loops) == 1 + Len(branches)

\* the complexity formula of _calculateMethodMetrics
CyclomaticComplexity(branches, loops) == 1 + Len(branches) + Len(loops)

\* _calculateMethodMetrics(methodNode, code); the line and parameter counts,
\* which depend on positions and on the parameter list, are left out
CalculateMethodMetrics(t, n) ==
    LET statements == FindNodesByType(t, n, StatementTypes)
        branches == FindNodesByType(t, n, BranchTypes)
        loops == FindNodesByType(t, n, LoopTypes)
        returns == FindNodesByType(t, n, ReturnTypes)
    IN  [statement_count |-> Len(statements),
         branch_count |-> Len(branches),
         loop_count |-> Len(loops),
         nesting_depth |-> CalculateNestingDepth(t, n),
         cyclomatic_complexity |-> CyclomaticComplexity(branches, loops),
         return_count |-> Len(returns)]

\* parent: null of a top-level function
NoParent == [type |-> "null", name |-> Null]

\* the record _extractClassMethodsComplete and _extractTopLevelFunctions build
CompleteMethodRecord(t, cfg, n, parent) ==
    [name |-> GetNodeName(t, n, cfg.methodNameField),
     location |-> n,
     modifiers |-> GetModifiers(t, n),
     return_type |-> GetReturnType(t, n),
     parameters |->
         LET parametersDetailed == GetParametersDetailed(t, n)
         IN  [i \in 1..Len(parametersDetailed) |->
                [name |-> parametersDetailed[i].name,
                 type |-> IF Truthy(parametersDetailed[i].type)
                          THEN parametersDetailed[i].type ELSE Str("any"),
                 default_value |-> parametersDetailed[i].defaultValue]],
     parent |-> parent,
     metrics |-> CalculateMethodMetrics(t, n),
     documentation |-> ExtractDocumentation(t, n)]

\* a field search over the whole class node instead of its body
ClassFieldNodesOfClassNode(t, cfg, classNode) ==
    FindNodesByType(t, classNode, cfg.fieldTypes)

\* the node list _extractClassFields walks
ClassFieldNodes(t, cfg, classNode) ==
    LET body == ChildForFieldName(t, classNode, "body")
    IN  IF body = NoNode THEN <<>>
        ELSE FindNodesByType(t, body, cfg.fieldTypes)

\* _extractClassFields(classNode): CompleteExtractor inherits the field
\* extraction of ASTExtractor, which yields one record per field node
ExtractClassFields(t, cfg, classNode) ==
    LET fieldNodes == ClassFieldNodes(t, cfg, classNode)
    IN  [i \in 1..Len(fieldNodes) |->
          LET fieldInfo == ExtractFieldInfo(t, cfg, fieldNodes[i], 0)
          IN  [name |-> fieldInfo.name, type |-> fieldInfo.type,
               modifiers |-> fieldInfo.modifiers, default_value |-> Null]]

\* _extractClassMethodsComplete(classNode, ..., className, ...)
ExtractClassMethodsComplete(t, cfg, classNode, className) ==
    LET body == ChildForFieldName(t, classNode, "body")
        methodNodes == IF body = NoNode THEN <<>>
                       ELSE FindNodesByType(t, body, cfg.methodTypes)
    IN  [i \in 1..Len(methodNodes) |->
            CompleteMethodRecord(t, cfg, methodNodes[i],
                [type |-> "class", name |-> className])]

\* _extractTopLevelFunctions(rootNode, ...)
ExtractTopLevelFunctions(t, cfg) ==
    LET allMethods == FindNodesByType(t, 1, cfg.methodTypes)
        topLevelMethods ==
            SelectSeq(allMethods,
                LAMBDA m : ~Truthy(GetParentClassName(t, cfg, m)))
    IN  [i \in 1..Len(topLevelMethods) |->
            CompleteMethodRecord(t, cfg, topLevelMethods[i], NoParent)]

\* _calculateClassMetrics(classNode, code, fields, methods), counts only
CalculateClassMetrics(fields, methods) ==
    [method_count |-> Len(methods), field_count |-> Len(fields)]

\* _extractClassesComplete(rootNode, ...)
ExtractClassesComplete(t, cfg) ==
    LET classNodes == FindNodesByType(t, 1, cfg.classTypes)
    IN  [i \in 1..Len(classNodes) |->
          LET classNode == classNodes[i]
              className == GetNodeName(t, classNode, cfg.classNameField)
              fields == ExtractClassFields(t, cfg, classNode)
              methods == ExtractClassMethodsComplete(t, cfg, classNode,
                                                     className)
          IN  [name |-> className,
               modifiers |-> GetModifiers(t, classNode),
               location |-> classNode,
               fields |-> fields,
               methods |-> methods,
               metrics |-> CalculateClassMetrics(fields, methods),
               documentation |-> ExtractDocumentation(t, classNode)]]

\* extractComplete(code, filePath, language); imports and line counts are
\* left out, the file metrics are _calculateFileMetrics
ExtractComplete(t, cfg) ==
    LET classes == ExtractClassesComplete(t, cfg)
        functions == ExtractTopLevelFunctions(t, cfg)
    IN  [classes |-> classes,
         functions |-> functions,
         metrics |-> [class_count |-> Len(classes),
                      function_count |-> Len(functions)]]

\* extractComplete(code, filePath, language) with the file and the language
\* it was given
WithFile(result, filePath, language) ==
    [file |-> filePath, language |-> language,
     classes |-> result.classes, functions |-> result.functions,
     metrics |-> result.metrics]

ExtractCompleteOf(t, cfg, filePath, language) ==
    WithFile(ExtractComplete(t, cfg), filePath, language)

\* ------------------------------------------------------------ TextGenerator
\* Array.prototype.flat: the sequences of a sequence, one after the other
RECURSIVE Flat(_)
Flat(ss) == IF ss = <<>> THEN <<>> ELSE ss[1] \o Flat(Tail(ss))

\* the parameter part of a method text
FormatParameter(p) ==
    IF Truthy(p.type) /\ p.type /= Str("any")
    THEN IF Truthy(p.default_value)
         THEN p.name \o <<":">> \o p.type \o <<"=">> \o p.default_value
         ELSE p.name \o <<":">> \o p.type
    ELSE IF Truthy(p.default_value)
         THEN p.name \o <<"=">> \o p.default_value
         ELSE p.name

\* TextGenerator._formatMethodText(method, parentClass, file, language);
\* parentClass is NoParent for a top-level function.  The doc part is left
\* out: it is added only for a method whose documentation has has_doc
FormatMethodText(method, parentClass, file, language) ==
    LET head == IF parentClass /= NoParent
                THEN file \o <<":">> \o parentClass.name \o <<".">>
                     \o method.name
                ELSE file \o <<":">> \o method.name
        lang == <<"l", "a", "n", "g", "=">> \o language
        returns == IF Truthy(method.return_type)
                      /\ method.return_type /= Str("void")
                   THEN <<<<"r", "e", "t", "u", "r", "n", "s", "=">> \o method.return_type>>
                   ELSE <<>>
        params == IF Len(method.parameters) > 0
                  THEN <<"p", "a", "r", "a", "m", "s", "=">> \o <<"(">>
                       \o Join([i \in 1..Len(method.parameters) |->
                                  FormatParameter(method.parameters[i])],
                               <<",">>)
                       \o <<")">>
                  ELSE <<"p", "a", "r", "a", "m", "s", "=">> \o <<"(", ")">>
        mods == SelectSeq(method.modifiers,
                    LAMBDA m : m \in {Str("public"), Str("private"),
                                      Str("protected"), Str("static"),
                                      Str("async"), Str("override")})
        modifiers == IF Len(mods) > 0
                     THEN <<<<"m", "o", "d", "i", "f", "i", "e", "r", "s", "=">> \o Join(mods, <<",">>)>>
                     ELSE <<>>
    IN  Join(<<head, lang>> \o returns \o <<params>> \o modifiers, <<" ">>)

\* TextGenerator.generateMethodTexts(jsonResult): `file || 'unknown'`
GenerateMethodTexts(jsonResult) ==
    LET file == IF Truthy(jsonResult.file) THEN jsonResult.file
                ELSE Str("unknown")
        language == IF Truthy(jsonResult.language) THEN jsonResult.language
                    ELSE Str("unknown")
    IN  Flat([c \in 1..Len(jsonResult.classes) |->
                [m \in 1..Len(jsonResult.classes[c].methods) |->
                    FormatMethodText(jsonResult.classes[c].methods[m],
                                     jsonResult.classes[c], file, language)]])
        \o [f \in 1..Len(jsonResult.functions) |->
               FormatMethodText(jsonResult.functions[f], NoParent, file,
                                language)]

\* ---------------------------------------------------------- ProjectAnalyzer
\* A directory is a sequence of files; a file has a name and an extension
\* (its path is the two together), the syntax tree of its text, and is
\* readable or not (reading or parsing an unreadable file throws).
FilePath(f) == f.name \o f.ext

\* detectLanguage(ext): this.languageMap[ext.toLowerCase()] || null
DetectLanguage(ext) ==
    LET e == ToLowerCase(ext)
    IN  IF e = <<".", "j", "a", "v", "a">> THEN KeySpelling["java"]
        ELSE IF e = <<".", "p", "y">> THEN KeySpelling["python"]
        ELSE IF e = <<".", "c", "s">> THEN KeySpelling["csharp"]
        ELSE IF e \in {<<".", "j", "s">>, <<".", "j", "s", "x">>,
                       <<".", "t", "s">>, <<".", "t", "s", "x">>}
        THEN KeySpelling["javascript"]
        ELSE Null

\* collectCodeFiles(dirPath): the files of a supported type; the names of the
\* files match none of the ignore patterns
CollectCodeFiles(dir) ==
    SelectSeq(dir, LAMBDA f : DetectLanguage(ToLowerCase(f.ext)) /= Null)

\* parseFile(filePath, relativePath): <<>> stands for the null it returns
\* when the type is not supported or when anything in the try block throws
ParseFile(f) ==
    IF ~f.readable THEN <<>>
    ELSE LET language == DetectLanguage(f.ext)
             made == GetLanguageConfig(language)
         IN  IF language = Null THEN <<>>
             ELSE IF made.threw THEN <<>>
             ELSE <<ExtractCompleteOf(f.tree, made.value, FilePath(f),
                                      language)>>

\* the entry that parseFiles pushes for a file: none when parseFile had no
\* result for it
PushedFor(fileInfo, result) ==
    IF result /= <<>>
    THEN <<[file |-> FilePath(fileInfo), result |-> result[1]]>>
    ELSE <<>>

\* a batch that ends at the first file that fails
RECURSIVE ParseFilesUntilFailure(_)
ParseFilesUntilFailure(fileInfos) ==
    IF fileInfos = <<>> \/ ParseFile(fileInfos[1]) = <<>> THEN <<>>
    ELSE PushedFor(fileInfos[1], ParseFile(fileInfos[1]))
         \o ParseFilesUntilFailure(Tail(fileInfos))

\* parseFiles(fileInfos): one entry for each file that parseFile has a
\* result for
RECURSIVE ParseFiles(_)
ParseFiles(fileInfos) ==
    IF fileInfos = <<>> THEN <<>>
    ELSE PushedFor(fileInfos[1], ParseFile(fileInfos[1]))
         \o ParseFiles(Tail(fileInfos))

\* generateMethodTexts(parseResults)
GenerateAllMethodTexts(parseResults) ==
    Flat([i \in 1..Len(parseResults) |->
             GenerateMethodTexts(parseResults[i].result)])

\* the result object of analyzeDirectory and analyzeProject; allTexts and
\* languageStats are left out
ResultObject(files, parseResults, methodTexts, isGitProject) ==
    [files |-> files,
     parseResults |-> parseResults,
     methodTexts |-> methodTexts,
     stats |-> [totalFiles |-> Len(files),
                parsedFiles |-> Len(parseResults),
                methodCount |-> Len(methodTexts)],
     isGitProject |-> isGitProject]

\* step 3 of an analysis: the texts are generated when generateTexts is set
AnalysisOfParsed(files, parseResults, generateTexts, isGitProject) ==
    ResultObject(files, parseResults,
                 IF generateTexts THEN GenerateAllMethodTexts(parseResults)
                 ELSE <<>>,
                 isGitProject)

\* step 2 of an analysis: the collected files are parsed
AnalysisOfFiles(files, generateTexts, isGitProject) ==
    AnalysisOfParsed(files, ParseFiles(files), generateTexts, isGitProject)

\* an analysis: step 1 collects the code files of the directory
AnalysisResult(dir, generateTexts, isGitProject) ==
    AnalysisOfFiles(CollectCodeFiles(dir), generateTexts, isGitProject)

\* analyzeDirectory(dirPath, options)
AnalyzeDirectory(dir, options) ==
    AnalysisResult(dir, options.generateTexts, FALSE)

\* analyzeProject(gitUrl, options): the analysis of the cloned directory
AnalyzeProject(dir, options) ==
    AnalysisResult(dir, options.generateTexts, TRUE)

\* the output files after saveResults(analysisResult, outputDir): the four
\* files it writes, by name
SavedFiles == <<"methods.txt", "all.txt", "analysis.json", "stats.json">>

\* an analysis that saves its result when saveToLocal is set
WrittenWhenSaveToLocal(written, options) ==
    IF options.saveToLocal THEN SavedFiles ELSE written

\* the output files after analyzeDirectory(dirPath, options): saveToLocal is
\* read from the options and not used, nothing is written
WrittenByAnalyzeDirectory(written, options) == written

\* ----------------------------------------------------------------- QuickAPI
\* analyzeLocalDirectory(dirPath): the method texts of the directory
AnalyzeLocalDirectory(dir) ==
    AnalyzeDirectory(dir, [generateTexts |-> TRUE,
                           saveToLocal |-> FALSE]).methodTexts

\* filterByLanguage(methodTexts, language)
FilterByLanguage(methodTexts, language) ==
    SelectSeq(methodTexts,
        LAMBDA text : StringIncludes(text, <<"l", "a", "n", "g", "=">> \o language))

\* Array.prototype.slice(a, b) for 0 <= a <= b: the items a .. b-1 that exist
Slice(s, a, b) == SubSeq(s, a + 1, IF b < Len(s) THEN b ELSE Len(s))

\* a relative index of slice: a negative one counts from the end
SliceIndex(s, k) ==
    IF k < 0 THEN Max(Len(s) + k, 0) ELSE IF k < Len(s) THEN k ELSE Len(s)

\* Array.prototype.slice(a, b) for any integers a and b
ArraySlice(s, a, b) ==
    IF SliceIndex(s, a) >= SliceIndex(s, b) THEN <<>>
    ELSE SubSeq(s, SliceIndex(s, a) + 1, SliceIndex(s, b))

\* a loop that stops before a batch that would not be full
RECURSIVE BatchesWithoutRemainder(_, _, _)
BatchesWithoutRemainder(methodTexts, batchSize, i) ==
    IF i + batchSize > Len(methodTexts) THEN <<>>
    ELSE <<Slice(methodTexts, i, i + batchSize)>>
         \o BatchesWithoutRemainder(methodTexts, batchSize, i + batchSize)

\* the loop of batchMethods from index i on
RECURSIVE BatchesFrom(_, _, _)
BatchesFrom(methodTexts, batchSize, i) ==
    IF ~(i < Len(methodTexts)) THEN <<>>
    ELSE <<Slice(methodTexts, i, i + batchSize)>>
         \o BatchesFrom(methodTexts, batchSize, i + batchSize)

\* batchMethods(methodTexts, batchSize)
BatchMethods(methodTexts, batchSize) == BatchesFrom(methodTexts, batchSize, 0)

\* ------------------------------------------------------------ source trees
\* A tree is drawn as a skeleton (a parent vector in document order and a
\* kind for each node); a kind fixes the node's type, field and text and the
\* leaf children (identifier, type, ...) the node starts with.
Leaf(type, field, text) ==
    [type |-> type, field |-> field, named |-> TRUE, text |-> text]

Kind(type, field, sub) ==
    [type |-> type, field |-> field, named |-> TRUE, text |-> Str("x"),
     sub |-> sub]

RootKind == Kind("program", "", <<>>)

\* the nodes a new last node may hang under: the last node and its ancestors
RECURSIVE RightPath(_, _)
RightPath(p, n) == IF n = 0 THEN {} ELSE {n} \cup RightPath(p, p[n])

RECURSIVE Shapes(_)
Shapes(n) ==
    IF n = 1 THEN {<<0>>}
    ELSE UNION {{Append(p, q) : q \in RightPath(p, Len(p))} :
                   p \in Shapes(n - 1)}

\* index in the tree of skeleton node i
NewIdx(ks, i) ==
    IF i = 0 THEN 0
    ELSE LET RECURSIVE Before(_)
             Before(j) == IF j = 0 THEN 0 ELSE Len(ks[j].sub) + 1 + Before(j - 1)
         IN  Before(i - 1) + 1

RECURSIVE ExpandFrom(_, _, _)
ExpandFrom(p, ks, i) ==
    IF i > Len(ks) THEN <<>>
    ELSE <<[type |-> ks[i].type, parent |-> NewIdx(ks, p[i]),
            field |-> ks[i].field, named |-> ks[i].named,
            text |-> ks[i].text]>>
         \o [j \in 1..Len(ks[i].sub) |->
                [type |-> ks[i].sub[j].type, parent |-> NewIdx(ks, i),
                 field |-> ks[i].sub[j].field, named |-> ks[i].sub[j].named,
                 text |-> ks[i].sub[j].text]]
         \o ExpandFrom(p, ks, i + 1)

Expand(p, ks) == ExpandFrom(p, ks, 1)

\* the tree over the kinds K that starts with the root and the nodes of
\* `first` below it in a chain, followed by the nodes of kinds k in shape p
Tree(first, p, k) ==
    Expand(p, [i \in 1..Len(p) |->
                 IF i = 1 THEN RootKind
                 ELSE IF i <= Len(first) + 1 THEN first[i - 1] ELSE k[i]])

\* the shapes of such trees with n nodes after `first`
TreeShapes(first, n) ==
    {q \in Shapes(Len(first) + 1 + n) : \A i \in 2..(Len(first) + 1) : q[i] = i - 1}

\* t is such a tree with at most max nodes after `first`
IsTree(t, first, K, max) ==
    \E n \in 0..max : \E p \in TreeShapes(first, n) :
        \E k \in [(Len(first) + 2)..(Len(first) + 1 + n) -> K] :
            t = Tree(first, p, k)

ClassNames == {<<>>, Str("A"), Str("B")}

\* one type of each configured role
OneOf(S) == CHOOSE x \in S : TRUE

EntityKinds(cfg) ==
    {Kind(OneOf(cfg.classTypes), "", <<>>)}
    \cup {Kind(OneOf(cfg.classTypes), "",
               <<Leaf("identifier", cfg.classNameField, nm)>>) :
             nm \in ClassNames}
    \cup {Kind(OneOf(cfg.methodTypes), "", <<>>),
          Kind(OneOf(cfg.fieldTypes), "", <<>>)}

\* a class named A
ClassKind(cfg) ==
    Kind(OneOf(cfg.classTypes), "",
         <<Leaf("identifier", cfg.classNameField, Str("A"))>>)

\* kinds of the class-member trees: a class, its body, methods and fields
MemberKinds(cfg) ==
    {ClassKind(cfg),
     Kind("class_body", "body", <<>>),
     Kind(OneOf(cfg.methodTypes), "", <<>>),
     Kind(OneOf(cfg.fieldTypes), "", <<>>)}

\* kinds of the method-body trees: a method and control-flow statements
ComplexityKinds(cfg) ==
    {Kind(OneOf(cfg.methodTypes), "", <<>>),
     Kind("if_statement", "", <<>>),
     Kind("for_statement", "", <<>>),
     Kind("case_clause", "", <<>>),
     Kind("do_statement", "", <<>>)}

\* kinds of the search trees: nodes of two types
FindKinds == {Kind("a", "", <<>>), Kind("b", "", <<>>)}

\* the targetTypes of a search: one type as a string or several in an array
FindTypes == {{"a"}, {"b"}, {"a", "b"}, {"program", "b"}}

\* siblings that may stand before a documented node or before its parent
Sibling(type, named, text) ==
    [type |-> type, field |-> "", named |-> named, text |-> text,
     sub |-> <<>>]

SiblingKinds ==
    {Sibling("comment", TRUE, Str("a")),
     Sibling("line_comment", TRUE, <<"b", " ">>),
     Sibling("block_comment", TRUE, Str(" ")),
     Sibling(";", FALSE, Str(";")),
     Sibling("pass_statement", TRUE, Str("x")),
     Sibling("ERROR", TRUE, Str("x"))}

\* statements of a body
StatementKinds ==
    {Kind("expression_statement", "", <<Leaf("string", "", Str("d"))>>),
     Kind("expression_statement", "", <<Leaf("assignment", "", Str("x"))>>),
     Kind("return_statement", "", <<>>)}

SeqsUpTo(S, max) == UNION {[1..n -> S] : n \in 0..max}

\* the tree  root[ parentPrev..., wrapper[ prev..., target[ body[ stmts ]]]]
\* (without the wrapper, prev and target are children of the root)
DocTree(cfg, parentPrev, wrapped, prev, hasBody, stmts) ==
    LET w == IF wrapped THEN Len(parentPrev) + 2 ELSE 1
        tg == (IF wrapped THEN Len(parentPrev) + 2 ELSE Len(parentPrev) + 1)
              + Len(prev) + 1
        ks == <<RootKind>> \o parentPrev
              \o (IF wrapped THEN <<Kind("decorated_definition", "", <<>>)>>
                  ELSE <<>>)
              \o prev
              \o <<Kind(OneOf(cfg.methodTypes), "", <<>>)>>
              \o (IF hasBody THEN <<Kind("block", "body", <<>>)>> \o stmts
                  ELSE <<>>)
        p == [i \in 1..Len(ks) |->
                IF i = 1 THEN 0
                ELSE IF i < w THEN 1
                ELSE IF i = w THEN 1
                ELSE IF i <= tg THEN w
                ELSE IF i = tg + 1 THEN tg
                ELSE tg + 1]
    IN  Expand(p, ks)

\* siblings before the documented node, and statements of its body
MaxSiblings == 2

MaxStatements == 2

\* what stands before the wrapper of a wrapped node: nothing, a comment or
\* a statement
ParentSiblingLists ==
    {<<>>, <<Sibling("comment", TRUE, Str("a"))>>,
     <<Sibling("pass_statement", TRUE, Str("x"))>>}

\* the bodies of the documented node: step 4 reads the body of a
\* function_definition only, other method nodes get a one-statement body
StatementLists(cfg) ==
    IF "function_definition" \in cfg.methodTypes
    THEN SeqsUpTo(StatementKinds, MaxStatements)
    ELSE [1..1 -> StatementKinds]

\* t is a tree around one documented node
IsDocTree(t, cfg) ==
    \E wrapped \in BOOLEAN :
        \E pp \in (IF wrapped THEN ParentSiblingLists ELSE {<<>>}) :
            \E pv \in SeqsUpTo(SiblingKinds, MaxSiblings) :
                \/ \E st \in StatementLists(cfg) :
                      t = DocTree(cfg, pp, wrapped, pv, TRUE, st)
                \/ t = DocTree(cfg, pp, wrapped, pv, FALSE, <<>>)

\* nodes of a Python source text with decorated functions: the wrapper, a
\* staticmethod decorator and another one, a function, and a function with
\* a static modifier
DecoratedKinds(cfg) ==
    {Kind("decorated_definition", "", <<>>),
     [Kind("decorator", "", <<>>) EXCEPT
         !.text = <<"@", "s", "t", "a", "t", "i", "c",
                    "m", "e", "t", "h", "o", "d">>],
     [Kind("decorator", "", <<>>) EXCEPT !.text = <<"@", "p">>],
     Kind(OneOf(cfg.methodTypes), "", <<>>),
     Kind(OneOf(cfg.methodTypes), "",
          <<Leaf("modifier", "", <<"s", "t", "a", "t", "i", "c">>)>>)}

\* siblings before a method: annotations, an earlier method and a token
AnnotationKinds(cfg) ==
    {Sibling("marker_annotation", TRUE, <<"@", "A">>),
     Sibling("annotation", TRUE, <<"@", "B">>),
     Sibling(";", FALSE, Str(";")),
     Kind(OneOf(cfg.methodTypes), "", <<>>)}

\* t is a tree of one method after a run of such siblings
IsAnnotatedTree(t, cfg) ==
    \E pv \in SeqsUpTo(AnnotationKinds(cfg), MaxSiblings) :
        t = DocTree(cfg, <<>>, FALSE, pv, FALSE, <<>>)

\* siblings before a documented node whose comments may share a text
RunKinds ==
    {Sibling("comment", TRUE, Str("a")),
     Sibling("comment", TRUE, Str("c")),
     Sibling(";", FALSE, Str(";")),
     Sibling("pass_statement", TRUE, Str("x"))}

\* t is a tree of one documented node after a run of such siblings
IsRunTree(t, cfg) ==
    \E pv \in SeqsUpTo(RunKinds, MaxSiblings + 1) :
        t = DocTree(cfg, <<>>, FALSE, pv, FALSE, <<>>)

\* nodes of a class-member tree besides the root and its leading class
MaxMembers == 3

\* field nodes of a C# source text, and declarators of one field declaration
MaxFieldNodes == 2

MaxDeclarators == 3

\* a node of a field item and the item's node it hangs under (0: the
\* container of the item)
Part(kind, up) == [kind |-> kind, up |-> up]

\* the name of the j-th declarator: v, vv, vvv, ...
DeclaratorName(j) == [i \in 1..j |-> "v"]

\* `public int v, vv, ...;` with k declarators
FieldItem(k) ==
    <<Part(Kind("field_declaration", "",
                <<Leaf("modifier", "", Str("p")),
                  Leaf("predefined_type", "type", Str("i"))>>), 0),
      Part(Kind("variable_declaration", "declaration", <<>>), 1)>>
    \o [j \in 1..k |->
          Part(Kind("variable_declarator", "",
                    <<Leaf("identifier", "name", DeclaratorName(j))>>), 2)]

\* a field declaration without its declaration child
BareFieldItem == <<Part(Kind("field_declaration", "", <<>>), 0)>>

PropertyItem ==
    <<Part(Kind("property_declaration", "",
                <<Leaf("identifier", "name", Str("P"))>>), 0)>>

FieldItems ==
    {BareFieldItem, PropertyItem} \cup {FieldItem(k) : k \in 0..MaxDeclarators}

\* the skeleton nodes of the items, each with the skeleton index of its
\* parent; `at` is the index of the container, `next` the next free index
RECURSIVE PlaceItems(_, _, _)
PlaceItems(items, at, next) ==
    IF items = <<>> THEN <<>>
    ELSE [j \in 1..Len(items[1]) |->
            [kind |-> items[1][j].kind,
             parent |-> IF items[1][j].up = 0 THEN at
                        ELSE next + items[1][j].up - 1]]
         \o PlaceItems(Tail(items), at, next + Len(items[1]))

\* the tree  root[ class A[ items... ]]  or  root[ items... ]
ItemTree(cfg, inClass, items) ==
    LET at == IF inClass THEN 2 ELSE 1
        placed == PlaceItems(items, at, at + 1)
        ks == <<RootKind>> \o (IF inClass THEN <<ClassKind(cfg)>> ELSE <<>>)
              \o [j \in 1..Len(placed) |-> placed[j].kind]
        p == <<0>> \o (IF inClass THEN <<1>> ELSE <<>>)
             \o [j \in 1..Len(placed) |-> placed[j].parent]
    IN  Expand(p, ks)

IsItemTree(t, cfg) ==
    \E inClass \in BOOLEAN : \E items \in SeqsUpTo(FieldItems, MaxFieldNodes) :
        t = ItemTree(cfg, inClass, items)

\* kinds of the nested-class trees: a class named B, a class without name,
\* a class body and a method m
NestedKinds(cfg) ==
    {Kind(OneOf(cfg.classTypes), "",
          <<Leaf("identifier", cfg.classNameField, Str("B"))>>),
     Kind(OneOf(cfg.classTypes), "", <<>>),
     Kind("class_body", "body", <<>>),
     Kind(OneOf(cfg.methodTypes), "",
          <<Leaf("identifier", cfg.methodNameField, Str("m"))>>)}

\* an anonymous token
Token(type) == [type |-> type, field |-> "", named |-> FALSE, text |-> <<type>>]

\* the assignment  left = 1
AssignmentKind(left) ==
    Kind("assignment", "",
         <<Leaf("attribute", "left", left), Token("="),
           Leaf("integer", "right", Str("1"))>>)

\* the statement  left = 1 : an expression statement around the assignment
AssignmentStatement(left) ==
    <<Part(Kind("expression_statement", "", <<>>), 0),
      Part(AssignmentKind(left), 1)>>

\* statements of a Python text: self.x = 1, y = 1, an assignment that is
\* not the child of a statement, and a call
AssignmentItems ==
    {AssignmentStatement(<<"s", "e", "l", "f", ".", "x">>),
     AssignmentStatement(Str("y")),
     <<Part(AssignmentKind(<<"s", "e", "l", "f", ".", "x">>), 0)>>,
     <<Part(Kind("expression_statement", "", <<Leaf("call", "", Str("f"))>>),
            0)>>}

IsAssignmentTree(t, cfg) ==
    \E inClass \in BOOLEAN :
        \E items \in SeqsUpTo(AssignmentItems, MaxFieldNodes) :
            t = ItemTree(cfg, inClass, items)

\* the tree  root[ class A[ body[ items... ]]]
ClassBodyTree(cfg, items) ==
    Expand(<<0, 1, 2>>
             \o [j \in 1..Len(PlaceItems(items, 3, 4)) |->
                    PlaceItems(items, 3, 4)[j].parent],
           <<RootKind, ClassKind(cfg), Kind("declaration_list", "body", <<>>)>>
             \o [j \in 1..Len(PlaceItems(items, 3, 4)) |->
                    PlaceItems(items, 3, 4)[j].kind])

\* a C# file with one class of field items
ClassFiles ==
    {[ext |-> <<".", "c", "s">>, readable |-> TRUE,
      tree |-> ClassBodyTree(CSharpConfig, items)] :
        items \in SeqsUpTo(FieldItems, MaxFieldNodes)}

\* children of a parameters node
MaxParameters == 3

ParameterKinds ==
    {[Kind("formal_parameter", "",
           <<Leaf("type_identifier", "type", Str("T")),
             Leaf("identifier", "name", Str("a"))>>) EXCEPT !.text = Str("f")],
     Sibling("identifier", TRUE, Str("b")),
     Sibling("spread_parameter", TRUE, Str("s")),
     Sibling(",", FALSE, Str(",")),
     Sibling("list_splat_pattern", TRUE, Str("l"))}

\* the text of a parameters node with the children ps
ParametersText(ps) ==
    <<"(">> \o Join([j \in 1..Len(ps) |-> ps[j].text], <<>>) \o <<")">>

\* a method node, with or without its name and return type children, and
\* with the parameters node of children ps
MethodItem(cfg, full, ps) ==
    <<Part(Kind(OneOf(cfg.methodTypes), "",
                IF full
                THEN <<Leaf("type_identifier", "type", Str("R")),
                       Leaf("identifier", cfg.methodNameField, Str("m"))>>
                ELSE <<>>), 0),
      Part([Kind("formal_parameters", "parameters", <<>>)
               EXCEPT !.text = ParametersText(ps)], 1)>>
    \o [j \in 1..Len(ps) |-> Part(ps[j], 2)]

\* a method node without parameters node
BareMethodItem(cfg, full) == <<MethodItem(cfg, full, <<>>)[1]>>

\* what stands before the method: a class and a field without children, or
\* a class and a field with their name and type children
LeadingItems(cfg) ==
    {<<<<Part(Kind(OneOf(cfg.classTypes), "", <<>>), 0)>>,
       <<Part(Kind(OneOf(cfg.fieldTypes), "", <<>>), 0)>>>>,
     <<<<Part(ClassKind(cfg), 0)>>,
       <<Part(Kind(OneOf(cfg.fieldTypes), "",
                   <<Leaf("type_identifier", "type", Str("T")),
                     Leaf("variable_declarator", cfg.fieldNameField,
                          Str("c"))>>), 0)>>>>}

IsSignatureTree(t, cfg) ==
    \E lead \in LeadingItems(cfg) : \E full \in BOOLEAN :
        \/ \E ps \in SeqsUpTo(ParameterKinds, MaxParameters) :
              t = ItemTree(cfg, FALSE, lead \o <<MethodItem(cfg, full, ps)>>)
        \/ t = ItemTree(cfg, FALSE, lead \o <<BareMethodItem(cfg, full)>>)

\* a class, a field and a method, each with or without its children; the
\* method without parameters node, with an empty one or with one parameter
IsDegradedTree(t, cfg) ==
    \E lead \in LeadingItems(cfg) : \E full \in BOOLEAN :
        \/ \E ps \in {<<>>, <<Sibling("identifier", TRUE, Str("b"))>>} :
              t = ItemTree(cfg, FALSE, lead \o <<MethodItem(cfg, full, ps)>>)
        \/ t = ItemTree(cfg, FALSE, lead \o <<BareMethodItem(cfg, full)>>)

\* language ids a caller may hand to the factory
LanguageNames ==
    {<<"j", "a", "v", "a">>,
     <<"J", "a", "v", "a">>,
     <<"J", "A", "V", "A">>,
     <<"p", "y", "t", "h", "o", "n">>,
     <<"C", "S", "h", "a", "r", "p">>,
     <<"j", "a", "v", "a", "s", "c", "r", "i", "p", "t">>,
     <<"j", "s">>,
     <<"t", "y", "p", "e", "s", "c", "r", "i", "p", "t">>,
     <<"T", "y", "p", "e", "S", "c", "r", "i", "p", "t">>,
     <<"r", "u", "b", "y">>,
     <<>>,
     <<"c", "o", "n", "s", "t", "r", "u", "c", "t", "o", "r">>}

\* files of a directory
MaxFiles == 2

\* the empty source text
EmptyText == Expand(<<0>>, <<RootKind>>)

\* the texts of source files: one function, or a class A with one method
\* followed by one function
FileContents(cfg) ==
    {Expand(<<0, 1>>, <<RootKind, Kind(OneOf(cfg.methodTypes), "", <<>>)>>),
     Expand(<<0, 1, 2, 3, 1>>,
            <<RootKind, ClassKind(cfg), Kind("class_body", "body", <<>>),
              Kind(OneOf(cfg.methodTypes), "", <<>>),
              Kind(OneOf(cfg.methodTypes), "", <<>>)>>)}

\* Java and JavaScript files, a file that cannot be read, and a file of no
\* supported type
FileKinds ==
    {[ext |-> <<".", "j", "a", "v", "a">>, readable |-> TRUE, tree |-> t] :
        t \in FileContents(JavaConfig) \cup {EmptyText}}
    \cup {[ext |-> <<".", "j", "s">>, readable |-> TRUE, tree |-> t] :
             t \in FileContents(JavaScriptConfig)}
    \cup {[ext |-> <<".", "j", "a", "v", "a">>, readable |-> FALSE,
           tree |-> EmptyText],
          [ext |-> <<".", "m", "d">>, readable |-> TRUE, tree |-> EmptyText]}

\* sizes of a batch
MaxBatchSize == 3

\* length of a list of method texts given to batchMethods
MaxTexts == 3

\* the batches the heap has room for: one more push fails
MaxBatches == 5

\* the texts of such a list
BatchTexts == {Str("a"), Str("b")}

FileNames == <<"a", "b", "c", "d">>

\* the directory of the files of kinds ks, named a, b, ...
Directory(ks) ==
    [i \in 1..Len(ks) |->
        [name |-> <<FileNames[i]>>, ext |-> ks[i].ext,
         readable |-> ks[i].readable, tree |-> ks[i].tree]]

\* ------------------------------------------------------------- the system
\* code: the tree of the source text under analysis; config: this.config of
\* the extractor; log: the last two calls made, with their results
Call(op, arg, result) == [op |-> op, arg |-> arg, result |-> result]

\* the log after one more call
Logged(call) == IF log = <<>> THEN <<call>> ELSE <<log[Len(log)], call>>

\* a log that holds the last call only
Latest(call) == <<call>>

\* an ASTExtractor over one source text
Init ==
    /\ config = LanguageConfigMap["java"]
    /\ IsTree(code, <<>>, EntityKinds(config), MaxNodes)
    /\ log = <<>>

\* a CompleteExtractor over one source text
InitComplete ==
    /\ config = LanguageConfigMap["java"]
    /\ \/ IsTree(code, <<ClassKind(config)>>, MemberKinds(config), MaxMembers)
       \/ IsTree(code, <<>>, ComplexityKinds(config), MaxNodes)
    /\ log = <<>>

\* a CompleteExtractor over a source text with one commented function
InitDoc ==
    /\ config \in {LanguageConfigMap["java"], LanguageConfigMap["python"]}
    /\ IsDocTree(code, config)
    /\ log = <<>>

\* a CompleteExtractor over a source text with one function after a run of
\* comments and tokens
InitRun ==
    /\ config = LanguageConfigMap["java"]
    /\ IsRunTree(code, config)
    /\ log = <<>>

\* a PythonExtractor over a source text with decorated functions
InitDecorated ==
    /\ config = LanguageConfigMap["python"]
    /\ IsTree(code, <<>>, DecoratedKinds(config), MaxNodes)
    /\ log = <<>>

DoExtractMethodsPython ==
    \E includeClassMethods \in BOOLEAN :
        /\ log' = Latest(Call("PythonExtractor.extractMethods",
                              includeClassMethods,
                              PythonExtractMethods(code, config,
                                                   includeClassMethods)))
        /\ UNCHANGED <<code, config>>

\* an ASTExtractor over a source text with annotated methods
InitAnnotated ==
    /\ config = LanguageConfigMap["java"]
    /\ IsAnnotatedTree(code, config)
    /\ log = <<>>

DoExtractMethods ==
    \E includeClassMethods \in BOOLEAN :
        /\ log' = Logged(Call("extractMethods", includeClassMethods,
                      ExtractMethods(code, config, includeClassMethods)))
        /\ UNCHANGED <<code, config>>

DoExtractAll ==
    /\ log' = Logged(Call("extractAll", TRUE, ExtractAll(code, config)))
    /\ UNCHANGED <<code, config>>

DoExtractClasses ==
    /\ log' = Logged(Call("extractClasses", TRUE,
                               ExtractClasses(code, config)))
    /\ UNCHANGED <<code, config>>

DoExtractComplete ==
    /\ log' = Logged(Call("extractComplete", TRUE,
                               ExtractComplete(code, config)))
    /\ UNCHANGED <<code, config>>

\* a CSharpExtractor over one source text
InitCSharp ==
    /\ config = LanguageConfigMap["csharp"]
    /\ IsItemTree(code, config)
    /\ log = <<>>

DoExtractFieldsCSharp ==
    /\ log' = Logged(Call("extractFields", TRUE,
                               CSharpExtractFields(code, config)))
    /\ UNCHANGED <<code, config>>

\* an ASTExtractor over a source text with one method signature
InitSignature ==
    /\ config = LanguageConfigMap["java"]
    /\ IsSignatureTree(code, config)
    /\ log = <<>>

\* the factory before its first call: no extractor, no source text (a tree
\* of the root alone); config is the config of the extractor created last
InitFactory ==
    /\ config = InheritedValue
    /\ code = Expand(<<0>>, <<RootKind>>)
    /\ log = <<>>

DoCreateExtractor ==
    \E languageName \in LanguageNames :
        LET made == CreateExtractor(languageName)
        IN  /\ log' = Logged(Call("createExtractor", languageName, made))
            /\ config' = IF made.threw THEN config ELSE made.value.config
            /\ UNCHANGED code

\* an extractor over a source text whose nodes may lack their children
InitDegraded ==
    /\ config = LanguageConfigMap["java"]
    /\ IsDegradedTree(code, config)
    /\ log = <<>>

DoExtractFieldsJava ==
    /\ log' = Logged(Call("JavaExtractor.extractFields", TRUE,
                               JavaExtractFields(code, config)))
    /\ UNCHANGED <<code, config>>

\* a project analyzer or a QuickAPI over one directory: code is the file
\* system, the files of the directory (or of the repository), the output
\* files written so far and whether the repository has been cloned;
\* config holds the language configs the extractors are made with
InitProject ==
    /\ config = LanguageConfigMap
    /\ \E ks \in SeqsUpTo(FileKinds, MaxFiles) :
          code = [files |-> Directory(ks), written |-> <<>>,
                  cloned |-> FALSE]
    /\ log = <<>>

\* the languages a caller filters for
FilterLanguages == {KeySpelling["java"], KeySpelling["javascript"],
                    KeySpelling["python"]}

DoFilterByLanguage ==
    LET methodTexts == AnalyzeLocalDirectory(code.files)
    IN  \E language \in FilterLanguages :
            /\ log' = Latest(Call("filterByLanguage", language,
                          FilterByLanguage(methodTexts, language)))
            /\ UNCHANGED <<code, config>>

DoBatchMethods ==
    LET methodTexts == AnalyzeLocalDirectory(code.files)
    IN  \E batchSize \in 1..MaxBatchSize :
            /\ log' = Latest(Call("batchMethods", batchSize,
                          BatchMethods(methodTexts, batchSize)))
            /\ UNCHANGED <<code, config>>

\* an ASTExtractor over one source text that is searched
InitFind ==
    /\ config = LanguageConfigMap["java"]
    /\ IsTree(code, <<>>, FindKinds, MaxNodes)
    /\ log = <<>>

\* findNodesByType(node, targetTypes) on a node of the tree; the call is
\* logged with the tree it was given
DoFindNodesByType ==
    \E n \in Nodes(code) : \E types \in FindTypes :
        /\ log' = Latest(Call("findNodesByType",
                              [tree |-> code, node |-> n, types |-> types],
                              FindNodesByType(code, n, types)))
        /\ UNCHANGED <<code, config>>

AnalysisOptions == [generateTexts : BOOLEAN, saveToLocal : BOOLEAN]

DoAnalyzeDirectory ==
    \E options \in AnalysisOptions :
        /\ log' = Latest(Call("analyzeDirectory", options,
                              AnalyzeDirectory(code.files, options)))
        /\ code' = [code EXCEPT
                      !.written = WrittenByAnalyzeDirectory(@, options)]
        /\ UNCHANGED config

\* analyzeProject(gitUrl, options): cloneRepository puts the files of the
\* repository into the project directory, then the directory is analyzed;
\* saveToLocal changes only what is printed and is left unset
DoAnalyzeProject ==
    \E options \in {o \in AnalysisOptions : ~o.saveToLocal} :
        /\ log' = Latest(Call("analyzeProject", options,
                              AnalyzeProject(code.files, options)))
        /\ code' = [code EXCEPT !.cloned = TRUE]
        /\ UNCHANGED config

\* saveResults(analysisResult, outputDir) with the result of the analysis
\* made last
DoSaveResults ==
    /\ log /= <<>>
    /\ log[1].op \in {"analyzeDirectory", "analyzeProject"}
    /\ log' = Latest(Call("saveResults", log[1].arg, log[1].result))
    /\ code' = [code EXCEPT !.written = SavedFiles]
    /\ UNCHANGED config

Next == DoExtractMethods \/ DoExtractAll

Spec == Init /\ [][Next]_vars

NextComplete == DoExtractComplete \/ DoExtractClasses

SpecComplete == InitComplete /\ [][NextComplete]_vars

NextDoc == DoExtractComplete

NextDecorated == DoExtractMethodsPython

SpecDecorated == InitDecorated /\ [][NextDecorated]_vars

\* a one-file project: the file goes through parseFile, and the extractor
\* that ExtractorFactory makes for its language extracts its fields
InitPipeline ==
    /\ config = LanguageConfigMap
    /\ \E k \in ClassFiles :
          code = [files |-> Directory(<<k>>), written |-> <<>>,
                  cloned |-> FALSE]
    /\ log = <<>>

DoParseFile ==
    /\ log' = Logged(Call("parseFile", code.files[1],
                          ParseFile(code.files[1])))
    /\ UNCHANGED <<code, config>>

DoExtractFieldsOfVariant ==
    /\ log' = Logged(Call("extractFields", code.files[1],
                          ExtractFieldsOfVariant(
                              CreateExtractor(DetectLanguage(code.files[1].ext)),
                              code.files[1].tree)))
    /\ UNCHANGED <<code, config>>

NextPipeline == DoParseFile \/ DoExtractFieldsOfVariant

SpecPipeline == InitPipeline /\ [][NextPipeline]_vars

\* a CompleteExtractor over a source text with a class A, its body, and
\* classes, bodies and methods inside and after it
InitNested ==
    /\ config = LanguageConfigMap["java"]
    /\ IsTree(code, <<ClassKind(config), Kind("class_body", "body", <<>>)>>,
              NestedKinds(config), MaxMembers)
    /\ log = <<>>

NextNested == DoExtractComplete

SpecNested == InitNested /\ [][NextNested]_vars

\* a PythonExtractor over a source text with assignments
InitAssigned ==
    /\ config = LanguageConfigMap["python"]
    /\ IsAssignmentTree(code, config)
    /\ log = <<>>

DoExtractFieldsPython ==
    /\ log' = Logged(Call("PythonExtractor.extractFields", TRUE,
                          PythonExtractFields(code, config)))
    /\ UNCHANGED <<code, config>>

NextAssigned == DoExtractFieldsPython

SpecAssigned == InitAssigned /\ [][NextAssigned]_vars

\* a call of batchMethods(methodTexts, batchSize) that has reached its loop:
\* batches is empty and i is 0
InitBatch ==
    /\ config = LanguageConfigMap
    /\ \E methodTexts \in SeqsUpTo(BatchTexts, MaxTexts) :
          \E batchSize \in (0 - MaxBatchSize)..MaxBatchSize :
              code = [methodTexts |-> methodTexts, batchSize |-> batchSize,
                      i |-> 0, batches |-> <<>>, pc |-> "loop"]
    /\ log = <<>>

\* one round of the loop: the test holds, a slice is pushed, i moves on
BatchPush ==
    /\ code.pc = "loop"
    /\ code.i < Len(code.methodTexts)
    /\ Len(code.batches) < MaxBatches
    /\ code' = [code EXCEPT
                  !.batches = Append(@, ArraySlice(code.methodTexts, code.i,
                                                   code.i + code.batchSize)),
                  !.i = @ + code.batchSize]
    /\ UNCHANGED <<config, log>>

\* the push that the heap has no room for: the call ends without return
BatchOutOfMemory ==
    /\ code.pc = "loop"
    /\ code.i < Len(code.methodTexts)
    /\ Len(code.batches) = MaxBatches
    /\ code' = [code EXCEPT !.pc = "out of memory"]
    /\ UNCHANGED <<config, log>>

\* the test fails: batches is returned
BatchReturn ==
    /\ code.pc = "loop"
    /\ ~(code.i < Len(code.methodTexts))
    /\ code' = [code EXCEPT !.pc = "returned"]
    /\ log' = Latest(Call("batchMethods", code.batchSize, code.batches))
    /\ UNCHANGED config

NextBatch == BatchPush \/ BatchOutOfMemory \/ BatchReturn

\* the loop runs on while it can
SpecBatch == InitBatch /\ [][NextBatch]_vars /\ WF_vars(NextBatch)

NextAnnotated == DoExtractMethods

SpecAnnotated == InitAnnotated /\ [][NextAnnotated]_vars

NextRun == DoExtractComplete

SpecRun == InitRun /\ [][NextRun]_vars

SpecDoc == InitDoc /\ [][NextDoc]_vars

NextSignature == DoExtractMethods

SpecSignature == InitSignature /\ [][NextSignature]_vars

NextFactory == DoCreateExtractor

SpecFactory == InitFactory /\ [][NextFactory]_vars

NextDegraded == DoExtractMethods \/ DoExtractAll \/ DoExtractFieldsJava

SpecDegraded == InitDegraded /\ [][NextDegraded]_vars

NextQuick == DoFilterByLanguage \/ DoBatchMethods

SpecQuick == InitProject /\ [][NextQuick]_vars

NextFind == DoFindNodesByType

SpecFind == InitFind /\ [][NextFind]_vars

NextProject == DoAnalyzeDirectory \/ DoAnalyzeProject \/ DoSaveResults

SpecProject == InitProject /\ [][NextProject]_vars

NextCSharp == DoExtractFieldsCSharp

SpecCSharp == InitCSharp /\ [][NextCSharp]_vars

\* ------------------------------------------------------------- properties
Range(s) == {s[i] : i \in 1..Len(s)}

\* the entries of the log for one operation
Calls(op) == {i \in 1..Len(log) : log[i].op = op}

\* the method records of a result of extractComplete
CompleteMethods(res) ==
    Range(res.functions) \cup UNION {Range(c.methods) : c \in Range(res.classes)}

ClassAncestors(n) ==
    {a \in Ancestors(code, n) : code[a].type \in config.classTypes}

\* the innermost class around n: ancestors lie on one path, deeper ones later
NearestClass(n) ==
    CHOOSE a \in ClassAncestors(n) : \A b \in ClassAncestors(n) : b <= a

\* the text of the class's name child, Null without one
ClassNameText(c) ==
    LET S == {k \in Nodes(code) :
                 code[k].parent = c /\ code[k].field = config.classNameField}
    IN  IF S = {} THEN Null
        ELSE code[CHOOSE k \in S : \A m \in S : k <= m].text

\* C1: a method with class ancestors reports as parentClass what the nearest
\* class ancestor is named (no name when that class has no name child), never
\* the name of an outer class
C1_ParentClassIsNearest ==
    \A i \in Calls("extractMethods") : \A r \in Range(log[i].result) :
        ClassAncestors(r.location) /= {} =>
            r.parentClass = ClassNameText(NearestClass(r.location))

C1_Witness ==
    \E i \in Calls("extractMethods") : \E r \in Range(log[i].result) :
        \E a \in ClassAncestors(r.location) :
            /\ a /= NearestClass(r.location)
            /\ Truthy(ClassNameText(a))
            /\ Truthy(ClassNameText(NearestClass(r.location)))
            /\ ClassNameText(a) /= ClassNameText(NearestClass(r.location))
            /\ r.parentClass = ClassNameText(NearestClass(r.location))

\* C2: parentClass of a method record is non-null exactly when the method
\* node has an ancestor of a class type
C2_ParentClassIffNested ==
    \A i \in Calls("extractMethods") : \A r \in Range(log[i].result) :
        (r.parentClass /= Null) <=> (ClassAncestors(r.location) /= {})

\* C3: extractMethods(code, false) is extractMethods(code, true) without the
\* records whose parentClass is non-null, in the same order
C3_TopLevelIsNullParentClass ==
    \A i, j \in Calls("extractMethods") :
        (log[i].arg = FALSE /\ log[j].arg = TRUE) =>
            log[i].result =
                SelectSeq(log[j].result, LAMBDA m : m.parentClass = Null)

\* the body child of a class node and the nodes of given types below it
BodyOf(c) ==
    LET S == {k \in Nodes(code) : code[k].parent = c /\ code[k].field = "body"}
    IN  IF S = {} THEN NoNode ELSE CHOOSE k \in S : \A m \in S : k <= m

UnderBody(c, types) ==
    IF BodyOf(c) = NoNode THEN {}
    ELSE {m \in Subtree(code, BodyOf(c)) : code[m].type \in types}

\* C4: the method and field counts of a class equal the lengths of its method
\* and field lists, the numbers of method and field nodes under the class
\* body, and the counts extractClasses reports for the class
C4_ClassCounts ==
    \A i \in Calls("extractComplete") : \A c \in Range(log[i].result.classes) :
        /\ c.metrics.method_count = Len(c.methods)
        /\ c.metrics.field_count = Len(c.fields)
        /\ c.metrics.method_count =
               Cardinality(UnderBody(c.location, config.methodTypes))
        /\ c.metrics.field_count =
               Cardinality(UnderBody(c.location, config.fieldTypes))
        /\ \A j \in Calls("extractClasses") : \A k \in Range(log[j].result) :
               k.location = c.location =>
                   /\ k.methodCount = c.metrics.method_count
                   /\ k.fieldCount = c.metrics.field_count

C4_Witness ==
    /\ Calls("extractClasses") /= {}
    /\ \E i \in Calls("extractComplete") :
         \E c \in Range(log[i].result.classes) :
            /\ c.metrics.method_count >= 1
            /\ c.metrics.field_count >= 1

TypedBelow(n, types) == {m \in Subtree(code, n) : code[m].type \in types}

\* C5: cyclomatic_complexity = 1 + branch_count + loop_count, the counts being
\* the numbers of branch and loop nodes in the method's subtree
C5_CyclomaticComplexity ==
    \A i \in Calls("extractComplete") :
        \A r \in CompleteMethods(log[i].result) :
            /\ r.metrics.branch_count =
                   Cardinality(TypedBelow(r.location, BranchTypes))
            /\ r.metrics.loop_count =
                   Cardinality(TypedBelow(r.location, LoopTypes))
            /\ r.metrics.cyclomatic_complexity =
                   1 + r.metrics.branch_count + r.metrics.loop_count

C5_Witness ==
    \E i \in Calls("extractComplete") :
        \E r \in CompleteMethods(log[i].result) :
            /\ r.metrics.branch_count >= 1
            /\ r.metrics.loop_count >= 1
            /\ r.metrics.cyclomatic_complexity >= 3

Documentations(res) ==
    {r.documentation : r \in CompleteMethods(res)}
    \cup {c.documentation : c \in Range(res.classes)}

NoDocumentation == [docstring |-> Null, has_doc |-> FALSE]

\* C7: has_doc is true exactly when the resolved text is non-empty
C7_HasDocIffTextNonEmpty ==
    \A i \in Calls("extractComplete") :
        \A d \in Documentations(log[i].result) :
            d.has_doc <=> (d.docstring /= Null /\ d.docstring /= <<>>)

\* C8 as stated: a method without a preceding sibling has no documentation
C8_NoSiblingNoDoc ==
    \A i \in Calls("extractComplete") :
        \A r \in CompleteMethods(log[i].result) :
            PreviousSibling(code, r.location) = NoNode =>
                r.documentation = NoDocumentation

\* the siblings of n that stand before it
SiblingsBefore(n) ==
    {m \in Nodes(code) : m < n /\ code[m].parent = code[n].parent}

\* a sibling the backward walk passes over
PassedOver(m) ==
    \/ code[m].type \in CommentTypes
    \/ code[m].type = "ERROR"
    \/ Trim(code[m].text) = <<>>

\* a comment stands before n with only passed-over siblings in between
CommentBefore(n) ==
    \E c \in SiblingsBefore(n) :
        /\ code[c].type \in CommentTypes
        /\ \A m \in SiblingsBefore(n) : m > c => PassedOver(m)

IsBareString(st) ==
    /\ code[st].type = "expression_statement"
    /\ \E k \in Nodes(code) :
          /\ code[k].parent = st
          /\ code[k].type = "string"
          /\ \A m \in Nodes(code) : code[m].parent = st => k <= m

StatementsOf(n) ==
    IF BodyOf(n) = NoNode THEN {}
    ELSE {m \in Nodes(code) : code[m].parent = BodyOf(n)}

\* the body scan of step 4 reaches a bare string literal
BodyStringFound(n) ==
    /\ code[n].type \in {"function_definition", "class_definition"}
    /\ \E st \in StatementsOf(n) :
          /\ IsBareString(st)
          /\ \A m \in StatementsOf(n) :
                m < st => (code[m].type \in {"expression_statement", "ERROR"}
                           \/ Trim(code[m].text) = <<>>)

\* C8 amended: a method without a preceding sibling has no documentation when
\* no comment is collected before its parent and its body yields no docstring
C8_NoSiblingNoParentCommentNoDoc ==
    \A i \in Calls("extractComplete") :
        \A r \in CompleteMethods(log[i].result) :
            (/\ PreviousSibling(code, r.location) = NoNode
             /\ ~(Parent(code, r.location) /= NoNode
                  /\ CommentBefore(Parent(code, r.location)))
             /\ ~BodyStringFound(r.location)) =>
                r.documentation = NoDocumentation

C8_Witness ==
    \E i \in Calls("extractComplete") :
        \E r \in CompleteMethods(log[i].result) :
            /\ PreviousSibling(code, r.location) = NoNode
            /\ PreviousSibling(code, Parent(code, r.location)) /= NoNode
            /\ StatementsOf(r.location) /= {}
            /\ r.documentation = NoDocumentation

\* the texts of the unbroken run of comment siblings directly before a node
RECURSIVE CommentRun(_)
CommentRun(sibling) ==
    IF sibling = NoNode THEN <<>>
    ELSE IF code[sibling].type \notin CommentTypes THEN <<>>
    ELSE CommentRun(PreviousSibling(code, sibling)) \o <<code[sibling].text>>

\* C9: a method directly preceded by a block of comments is documented by
\* exactly the texts of that block, joined by newline and trimmed
C9_CommentBlockOnly ==
    \A i \in Calls("extractComplete") :
        \A r \in CompleteMethods(log[i].result) :
            LET block == CommentRun(PreviousSibling(code, r.location))
            IN  block /= <<>> =>
                    r.documentation =
                        [docstring |-> Trim(Join(block, Str("\n"))),
                         has_doc |-> TRUE]

\* the first statement of the body that is neither ERROR nor blank
FirstStatement(n) ==
    LET S == {m \in StatementsOf(n) :
                 code[m].type /= "ERROR" /\ Trim(code[m].text) /= <<>>}
    IN  IF S = {} THEN NoNode ELSE CHOOSE m \in S : \A k \in S : m <= k

\* C10: the body contributes a docstring only through its first statement:
\* with any other first statement the documentation is that of the preceding
\* comments alone, and with a bare string first and nothing before the entity
\* the docstring is the literal's text
C10_DocstringOnlyFirstStatement ==
    \A i \in Calls("extractComplete") :
        \A r \in CompleteMethods(log[i].result) :
            LET n == r.location
                first == FirstStatement(n)
                before == ParentComments(code, n,
                            NamedBack(code, PreviousNamedSibling(code, n),
                              CollectBack(code, PreviousSibling(code, n),
                                          <<>>)))
            IN  (code[n].type = "function_definition" /\ first /= NoNode) =>
                    /\ ~IsBareString(first) =>
                           r.documentation = MergeComments(before)
                    /\ (IsBareString(first) /\ before = <<>>) =>
                           r.documentation =
                               [docstring |->
                                    code[Children(code, first)[1]].text,
                                has_doc |-> TRUE]

\* the declarators of field declaration n: the variable_declarator children
\* of its declaration child
DeclaratorsOf(n) ==
    {v \in Nodes(code) :
        /\ code[v].type = "variable_declarator"
        /\ code[v].parent /= NoNode
        /\ code[code[v].parent].parent = n
        /\ code[code[v].parent].field = "declaration"}

\* the records of a result that stem from node n, in result order
RecordsAt(res, n) == SelectSeq(res, LAMBDA r : r.location = n)

\* C11: a field declaration with k sibling declarators yields exactly k
\* records, all with the same parentClass and the same modifiers, carrying
\* the indices 1..k, wherever the declaration stands among the field nodes
C11_DeclaratorRecords ==
    \A i \in Calls("extractFields") :
        \A n \in Nodes(code) :
            code[n].type = "field_declaration" =>
                LET rs == RecordsAt(log[i].result, n)
                IN  /\ Len(rs) = Cardinality(DeclaratorsOf(n))
                    /\ \A a, b \in 1..Len(rs) :
                          /\ rs[a].parentClass = rs[b].parentClass
                          /\ rs[a].modifiers = rs[b].modifiers
                    /\ \A a \in 1..Len(rs) : rs[a].index = a

\* the children of the parameters node of method node n that are no
\* punctuation and whose type is a parameter shape or contains "parameter"
AcceptedParameters(n) ==
    LET S == {k \in Nodes(code) :
                 code[k].parent = n /\ code[k].field = "parameters"}
        paramsNode == CHOOSE k \in S : \A m \in S : k <= m
    IN  IF S = {} THEN <<>>
        ELSE SelectSeq(Children(code, paramsNode),
                 LAMBDA c :
                    /\ code[c].type \notin {",", "(", ")"}
                    /\ \/ code[c].type \in ParamTypes
                       \/ StringIncludes(Spelled(code[c].type),
                                         Spelled("parameter")))

\* C12: the detailed parameter list of a method holds one record for each
\* accepted child of its parameters node, in child order, and none for the
\* other children
C12_ParametersInDeclarationOrder ==
    \A i \in Calls("extractMethods") : \A r \in Range(log[i].result) :
        LET acc == AcceptedParameters(r.location)
        IN  /\ Len(r.parametersDetailed) = Len(acc)
            /\ \A j \in 1..Len(acc) :
                  r.parametersDetailed[j].text = code[acc[j]].text

\* a method with an accepted child after a rejected one and two accepted
\* children of different texts has been extracted
C12_Witness ==
    \E i \in Calls("extractMethods") : \E r \in Range(log[i].result) :
        LET acc == AcceptedParameters(r.location)
            S == {k \in Nodes(code) :
                     code[k].parent = r.location
                     /\ code[k].field = "parameters"}
        IN  /\ Len(acc) = 2
            /\ code[acc[1]].text /= code[acc[2]].text
            /\ \E c \in Nodes(code) :
                  /\ code[c].parent \in S
                  /\ code[c].type = "list_splat_pattern"
                  /\ c < acc[2]
            /\ Len(r.parametersDetailed) = 2

\* the entries of the language configuration map that id names, compared
\* without regard to case
EntriesFor(id) ==
    {k \in DOMAIN LanguageConfigMap : ToLowerCase(KeySpelling[k]) = ToLowerCase(id)}

\* C13: createExtractor throws the configuration error, constructing no
\* extractor, for every language id without entry in the language
\* configuration map, and returns an extractor bound to the entry's config
\* for every id with an entry
C13_FactoryFailsFast ==
    \A i \in Calls("createExtractor") :
        IF EntriesFor(log[i].arg) = {}
        THEN log[i].result.threw
        ELSE /\ ~log[i].result.threw
             /\ \E k \in EntriesFor(log[i].arg) :
                   log[i].result.value.config = LanguageConfigMap[k]

\* node n has a child under field f
HasChild(n, f) == \E k \in Nodes(code) : code[k].parent = n /\ code[k].field = f

NodesOfType(types) == {n \in Nodes(code) : code[n].type \in types}

Locations(records) == {r.location : r \in Range(records)}

ClassDegrades(r) ==
    ~HasChild(r.location, config.classNameField) => r.name = Str("anonymous")

MethodDegrades(r) ==
    /\ ~HasChild(r.location, config.methodNameField)
          => r.name = Str("anonymous")
    /\ ~HasChild(r.location, "type") /\ ~HasChild(r.location, "return_type")
          => r.returnType = Str("void")
    /\ ~HasChild(r.location, "parameters")
          => r.parametersDetailed = <<>> /\ r.parameters = <<"(", ")">>

FieldDegrades(r) ==
    /\ ~HasChild(r.location, config.fieldNameField)
          => r.name = Str("anonymous")
    /\ ~HasChild(r.location, "type") => r.type = Str("unknown")

\* the generic extractor: every class, method and field node has its record,
\* and a record of a node that lacks a child carries the sentinel
GenericDegrades ==
    /\ \A i \in Calls("extractAll") :
          /\ Locations(log[i].result.classes) = NodesOfType(config.classTypes)
          /\ Locations(log[i].result.methods) = NodesOfType(config.methodTypes)
          /\ Locations(log[i].result.fields) = NodesOfType(config.fieldTypes)
          /\ \A r \in Range(log[i].result.classes) : ClassDegrades(r)
          /\ \A r \in Range(log[i].result.methods) : MethodDegrades(r)
          /\ \A r \in Range(log[i].result.fields) : FieldDegrades(r)
    /\ \A i \in Calls("extractMethods") :
          \A r \in Range(log[i].result) : MethodDegrades(r)

TextsGeneratedFor(language) ==
    LET parsed == ParseFiles(CollectCodeFiles(code.files))
    IN  GenerateAllMethodTexts(
            SelectSeq(parsed, LAMBDA item : item.result.language = language))

\* C15: filterByLanguage(methodTexts, L) returns, in original order, exactly
\* the method texts generated for language L and none generated for another
\* language
C15_FilterByLanguage ==
    \A i \in Calls("filterByLanguage") :
        log[i].result = TextsGeneratedFor(log[i].arg)

\* C16: the batches of batchMethods, one after the other, are the input
\* list; no batch is empty or holds more than batchSize items, every batch
\* but the last holds batchSize items, and there are ceil(length / batchSize)
\* batches
C16_Batches ==
    \A i \in Calls("batchMethods") :
        LET methodTexts == AnalyzeLocalDirectory(code.files)
            batchSize == log[i].arg
            batches == log[i].result
        IN  /\ Flat(batches) = methodTexts
            /\ \A j \in 1..Len(batches) :
                  /\ Len(batches[j]) >= 1
                  /\ Len(batches[j]) <= batchSize
                  /\ j < Len(batches) => Len(batches[j]) = batchSize
            /\ Len(batches) = (Len(methodTexts) + batchSize - 1) \div batchSize

\* a list has been cut into two or more batches, the last one not full
C16_Witness ==
    \E i \in Calls("batchMethods") :
        /\ Len(log[i].result) >= 2
        /\ Len(log[i].result[Len(log[i].result)]) < log[i].arg

\* C17: a step of analyzeDirectory leaves the file system as it is, whatever
\* the options, and the output files change only in a step of saveResults
C17_AnalyzeDirectoryWritesNothing ==
    [][/\ log' /= <<>> /\ log'[1].op = "analyzeDirectory" => code' = code
       /\ code'.written /= code.written
             => log' /= <<>> /\ log'[1].op = "saveResults"]_vars

\* a directory with a method has been analyzed with saveToLocal set, and no
\* file is written
C17_Witness ==
    /\ log /= <<>>
    /\ log[1].op = "analyzeDirectory"
    /\ log[1].arg.saveToLocal
    /\ Len(log[1].result.methodTexts) > 0
    /\ code.written = <<>>

\* the sum of the numbers of a sequence
RECURSIVE Sum(_)
Sum(ns) == IF ns = <<>> THEN 0 ELSE ns[1] + Sum(Tail(ns))

\* the methods found in the parsed files: every class's methods and the
\* top-level functions
TotalMethods(parseResults) ==
    Sum([i \in 1..Len(parseResults) |->
            Sum([c \in 1..Len(parseResults[i].result.classes) |->
                    Len(parseResults[i].result.classes[c].methods)])
            + Len(parseResults[i].result.functions)])

\* the calls of analyzeDirectory and analyzeProject in the log
Analyses ==
    {i \in 1..Len(log) : log[i].op \in {"analyzeDirectory", "analyzeProject"}}

\* C18: in the result of an analysis, stats.methodCount is the number of
\* methods found in the parsed files, for every value of generateTexts, and
\* stats.parsedFiles is the length of parseResults, at most stats.totalFiles
C18_StatsCountMethods ==
    \A i \in Analyses :
        LET result == log[i].result
        IN  /\ result.stats.methodCount = TotalMethods(result.parseResults)
            /\ result.stats.parsedFiles = Len(result.parseResults)
            /\ result.stats.parsedFiles <= result.stats.totalFiles

\* a file of a batch fails when parseFile has no result for it
Fails(f) == ParseFile(f) = <<>>

\* C19: the entries that parseFiles made for the files of an analysis are
\* those of the files that do not fail, one for each in the order of the
\* batch, and they are the entries parseFiles makes for the batch without
\* the failing files
C19_FailureIsolation ==
    \A i \in Analyses :
        LET files == log[i].result.files
            others == SelectSeq(files, LAMBDA f : ~Fails(f))
            parseResults == log[i].result.parseResults
        IN  /\ Len(parseResults) = Len(others)
            /\ \A k \in 1..Len(others) :
                   /\ parseResults[k].file = FilePath(others[k])
                   /\ <<parseResults[k].result>> = ParseFile(others[k])
            /\ parseResults = ParseFiles(others)

\* a batch whose first file fails and whose second file has an entry with a
\* method or a function has been parsed
C19_Witness ==
    \E i \in Analyses :
        LET files == log[i].result.files
            parseResults == log[i].result.parseResults
        IN  /\ Len(files) >= 2
            /\ Fails(files[1])
            /\ Len(parseResults) >= 1
            /\ parseResults[1].file = FilePath(files[2])
            /\ TotalMethods(parseResults) > 0

\* the child of a under which m lies, for a node m below a
ChildToward(t, a, m) ==
    CHOOSE c \in Nodes(t) : t[c].parent = a /\ m \in Subtree(t, c)

\* the place of child c among the children of its parent, from the left
PlaceOf(t, c) ==
    CHOOSE k \in 1..Len(Children(t, t[c].parent)) :
        Children(t, t[c].parent)[k] = c

\* x comes before y in depth-first pre-order: x is an ancestor of y, or, under
\* their lowest common ancestor, x lies below a child left of the one that y
\* lies below
PreOrderBefore(t, x, y) ==
    \/ x \in Ancestors(t, y)
    \/ \E a \in Ancestors(t, x) \cap Ancestors(t, y) :
          PlaceOf(t, ChildToward(t, a, x)) < PlaceOf(t, ChildToward(t, a, y))

\* C20: findNodesByType(root, types) returns the nodes of the subtree of root,
\* root included, whose type is in types, each once, a parent before its
\* descendants and siblings left to right, and the tree is as it was given
C20_FindNodesByTypePreOrder ==
    \A i \in 1..Len(log) :
        log[i].op = "findNodesByType" =>
            LET t == log[i].arg.tree
                found == log[i].result
            IN  /\ {found[k] : k \in 1..Len(found)}
                     = {m \in Subtree(t, log[i].arg.node) :
                           t[m].type \in log[i].arg.types}
                /\ \A j, k \in 1..Len(found) :
                       j < k => /\ found[j] /= found[k]
                                /\ PreOrderBefore(t, found[j], found[k])
                /\ code = t

\* a search from the root has found a node, a child of that node and then a
\* sibling to the right of that node
C20_Witness ==
    /\ log /= <<>>
    /\ log[1].op = "findNodesByType"
    /\ log[1].arg.node = 1
    /\ Len(log[1].result) >= 3
    /\ \E k \in 1..(Len(log[1].result) - 2) :
          /\ code[log[1].result[k + 1]].parent = log[1].result[k]
          /\ code[log[1].result[k + 2]].parent = code[log[1].result[k]].parent

\* the siblings before n that are neither comments nor blank
Stoppers(n) ==
    {m \in SiblingsBefore(n) :
        code[m].type \notin CommentTypes /\ Trim(code[m].text) /= <<>>}

\* the texts, in source order, of the comment siblings of n that stand at or
\* after sibling m
RECURSIVE CommentsFrom(_, _)
CommentsFrom(m, n) ==
    IF m >= n THEN <<>>
    ELSE (IF code[m].parent = code[n].parent /\ code[m].type \in CommentTypes
          THEN <<code[m].text>> ELSE <<>>)
         \o CommentsFrom(m + 1, n)

\* C21: when a sibling that is neither a comment nor blank stands before a
\* method, the comments of the siblings taken into its documentation are
\* those standing after the nearest such sibling, and no comment before it
C21_StopAtNonComment ==
    \A i \in Calls("extractComplete") :
        \A r \in CompleteMethods(log[i].result) :
            LET n == r.location
                S == Stoppers(n)
            IN  S /= {} =>
                    LET stop == CHOOSE m \in S : \A k \in S : k <= m
                    IN  r.documentation =
                            MergeComments(BodyComments(code, n,
                                ParentComments(code, n,
                                               CommentsFrom(stop, n))))

\* the siblings of n between m and n
Between(m, n) == {k \in SiblingsBefore(n) : k > m}

\* the comment nodes step 1 collects for n: those with only passed-over
\* siblings between them and n
CollectedByStep1(n) ==
    {c \in SiblingsBefore(n) :
        /\ code[c].type \in CommentTypes
        /\ \A m \in Between(c, n) : PassedOver(m)}

\* the comment nodes of the named-previous-sibling chain of n: those with
\* only comments among the named siblings between them and n
NamedChain(n) ==
    {c \in SiblingsBefore(n) :
        /\ code[c].named /\ code[c].type \in CommentTypes
        /\ \A m \in Between(c, n) :
              code[m].named => code[m].type \in CommentTypes}

\* the texts of the nodes of S from node m on, in source order
RECURSIVE TextsOf(_, _)
TextsOf(S, m) ==
    IF m > Len(code) THEN <<>>
    ELSE (IF m \in S THEN <<code[m].text>> ELSE <<>>) \o TextsOf(S, m + 1)

\* C22: the comments of a method after step 2 are those of the nodes step 1
\* collected and of every other comment node of the named-previous-sibling
\* chain, also one whose text equals that of a collected comment, in source
\* order
C22_Step2AddsEveryNewNode ==
    \A i \in Calls("extractComplete") :
        \A r \in CompleteMethods(log[i].result) :
            LET n == r.location
            IN  r.documentation =
                    MergeComments(BodyComments(code, n,
                        ParentComments(code, n,
                            TextsOf(CollectedByStep1(n) \cup NamedChain(n),
                                    1))))

\* the leaves of the subtree of n
LeavesBelow(n) ==
    {m \in Subtree(code, n) : \A k \in Nodes(code) : code[k].parent /= m}

\* the nesting nodes on the path from n to m, n excluded
NestingOnPath(n, m) ==
    {a \in (Ancestors(code, m) \cup {m}) \cap (Subtree(code, n) \ {n}) :
        code[a].type \in NestingTypes}

\* C23: nesting_depth of a method is the largest number of nesting nodes on
\* a path from the method node down to a leaf, the method node not counted;
\* it is 0 exactly when no nesting node lies below the method and is at most
\* the number of nesting nodes below it
C23_NestingDepth ==
    \A i \in Calls("extractComplete") :
        \A r \in CompleteMethods(log[i].result) :
            LET n == r.location
                depth == r.metrics.nesting_depth
                below == TypedBelow(n, NestingTypes) \ {n}
            IN  /\ \A m \in LeavesBelow(n) :
                       Cardinality(NestingOnPath(n, m)) <= depth
                /\ \E m \in LeavesBelow(n) :
                       Cardinality(NestingOnPath(n, m)) = depth
                /\ depth = 0 <=> below = {}
                /\ depth <= Cardinality(below)

\* a method with two nesting nodes below it, side by side, has depth 1
C23_Witness ==
    \E i \in Calls("extractComplete") :
        \E r \in CompleteMethods(log[i].result) :
            /\ r.metrics.nesting_depth = 1
            /\ Cardinality(TypedBelow(r.location, NestingTypes)) = 2

\* the annotation siblings directly before n: those with only annotations
\* among the named siblings between them and n
AnnotationRun(n) ==
    {c \in SiblingsBefore(n) :
        /\ code[c].type \in {"marker_annotation", "annotation"}
        /\ \A m \in Between(c, n) :
              code[m].named
                  => code[m].type \in {"marker_annotation", "annotation"}}

\* C24: the annotation entries of a method record's decorators are the
\* annotation siblings directly before the method node, in source order
C24_AnnotationsDirectlyBefore ==
    \A i \in Calls("extractMethods") :
        \A r \in Range(log[i].result) :
            [k \in 1..Len(r.decorators) |-> r.decorators[k].text]
                = TextsOf(AnnotationRun(r.location), 1)

\* the decorator children of wrapper w whose name contains "staticmethod"
StaticDecorators(w) ==
    {d \in Nodes(code) :
        /\ code[d].parent = w
        /\ code[d].type = "decorator"
        /\ StringIncludes(DecoratorEntry(code, d).name,
                          <<"s", "t", "a", "t", "i", "c",
                            "m", "e", "t", "h", "o", "d">>)}

\* C25: a method of the Python variant is static exactly when an ancestor of
\* it is a decorated_definition wrapper carrying a decorator whose name
\* contains "staticmethod"
C25_StaticIffWrapped ==
    \A i \in Calls("PythonExtractor.extractMethods") :
        \A r \in Range(log[i].result) :
            r.isStatic <=>
                \E w \in Ancestors(code, r.location) :
                    /\ code[w].type = "decorated_definition"
                    /\ StaticDecorators(w) /= {}

\* the variant the selection table of createExtractor names for an id
VariantNamed(id) ==
    IF ToLowerCase(id) = KeySpelling["java"] THEN "JavaExtractor"
    ELSE IF ToLowerCase(id) = KeySpelling["python"] THEN "PythonExtractor"
    ELSE IF ToLowerCase(id) = KeySpelling["csharp"] THEN "CSharpExtractor"
    ELSE IF ToLowerCase(id) \in {KeySpelling["javascript"], <<"j", "s">>}
    THEN "JavaScriptExtractor"
    ELSE "ASTExtractor"

\* C26: createExtractor returns the variant its selection table names for
\* java, python, csharp, javascript and js in any case, the generic extractor
\* for typescript, and accepts exactly the ids getSupportedLanguages reports
C26_SelectionByLanguageId ==
    \A i \in Calls("createExtractor") :
        LET id == log[i].arg
            made == log[i].result
        IN  /\ VariantNamed(id) /= "ASTExtractor" =>
                   ~made.threw /\ made.value.class = VariantNamed(id)
            /\ ToLowerCase(id) = KeySpelling["typescript"] =>
                   ~made.threw /\ made.value.class = "ASTExtractor"
            /\ ~made.threw <=> ToLowerCase(id) \in SupportedLanguages

\* the names of field records, in their order
FieldNames(fields) == [j \in 1..Len(fields) |-> fields[j].name]

\* C27: parseFile reports under a class the fields, by name and number, that
\* the extractor ExtractorFactory makes for the language extracts from the
\* class
C27_PipelineAppliesVariant ==
    \A i \in Calls("parseFile") :
        \A r \in Range(log[i].result) :
            \A c \in Range(r.classes) :
                FieldNames(c.fields) =
                    FieldNames(ExtractFieldsOfVariant(
                        CreateExtractor(r.language), log[i].arg.tree))

\* the nodes of a method type
MethodNodes == {m \in Nodes(code) : code[m].type \in config.methodTypes}

\* the places of a result where the method node m is reported
ReportedInClasses(res, m) ==
    {<<c, j>> \in (1..Len(res.classes)) \X (1..Len(code)) :
        /\ j <= Len(res.classes[c].methods)
        /\ res.classes[c].methods[j].location = m}

ReportedInFunctions(res, m) ==
    {f \in 1..Len(res.functions) : res.functions[f].location = m}

\* C28: extractComplete reports every method node exactly once, in the
\* methods of its nearest enclosing class or, without class ancestor, in the
\* top-level functions; function_count counts the top-level functions and
\* the method texts hold one text for each method node
C28_EveryMethodOnce ==
    \A i \in Calls("extractComplete") :
        LET res == log[i].result
        IN  /\ \A m \in MethodNodes :
                  /\ Cardinality(ReportedInClasses(res, m))
                       + Cardinality(ReportedInFunctions(res, m)) = 1
                  /\ \A p \in ReportedInClasses(res, m) :
                        /\ ClassAncestors(m) /= {}
                        /\ res.classes[p[1]].location = NearestClass(m)
                        /\ res.classes[p[1]].methods[p[2]].parent.name
                             = res.classes[p[1]].name
                  /\ ReportedInFunctions(res, m) /= {} =>
                        ClassAncestors(m) = {}
            /\ res.metrics.function_count =
                  Cardinality({m \in MethodNodes : ClassAncestors(m) = {}})
            /\ Len(GenerateMethodTexts(
                      WithFile(res, Str("f"), KeySpelling["java"])))
                  = Cardinality(MethodNodes)

\* the assignment nodes of the source text
AssignmentNodes == {a \in Nodes(code) : code[a].type = "assignment"}

\* the records of a result made for the assignment a: those of the
\* assignment node and those of the statement node around it
RecordsOf(fields, a) ==
    {j \in 1..Len(fields) : AssignmentOf(code, fields[j].location) = a}

\* the left-hand target of a names the instance receiver
TargetsReceiver(a) ==
    /\ Child(code, a, 0) /= NoNode
    /\ StringIncludes(code[Child(code, a, 0)].text, <<"s", "e", "l", "f", ".">>)

\* C29: extractFields of the Python variant yields exactly one record for an
\* assignment inside a class whose left-hand target holds "self.", and none
\* for another assignment or outside a class; no record is made for a node
\* that is not an assignment, and none twice for one statement
C29_OneRecordPerSelfAssignment ==
    \A i \in Calls("PythonExtractor.extractFields") :
        /\ \A a \in AssignmentNodes :
              Cardinality(RecordsOf(log[i].result, a)) =
                  IF ClassAncestors(a) /= {} /\ TargetsReceiver(a) THEN 1
                  ELSE 0
        /\ \A j \in 1..Len(log[i].result) :
              AssignmentOf(code, log[i].result[j].location) \in AssignmentNodes

\* C30: batchMethods returns for every list and every integer batchSize,
\* zero and negative ones included
C30_BatchMethodsReturns ==
    <>(code.pc = "returned")

====
